---- MODULE Spec2Model ----
(***************************************************************************)
(* A model of surrealmcp's bearer-token validator (src/server/auth.rs),    *)
(* its rate-limit key extractor and limiter (src/server/limit.rs) and the  *)
(* HTTP middleware stack built in src/server/start.rs.                     *)
(*                                                                         *)
(* Strings are modelled as sequences of items.  An item is a whitespace    *)
(* character, a '.', or a chunk: a maximal run of characters standing for  *)
(* one base64url text (or for characters that are no base64url).  Every    *)
(* item is a record of the same shape so that items compare.               *)
(***************************************************************************)
EXTENDS Integers, Sequences, FiniteSets, TLC

\* ------------------------------------------------------------------ bounds
\* The largest value of the (narrowed) unsigned integer type standing for u64.
U64Max == 4
\* The wall clock (seconds since the epoch) when the server starts.
NowInit == 2
\* The largest configured clock skew.
MaxSkew == 1
\* The longest raw (unstructured) token string that is enumerated.
MaxRawLen == 3

\* The configured rate limit: --rate-limit-rps and --rate-limit-burst.
RateLimitRps == 2
RateLimitBurst == 2
\* The number of HTTP requests a behaviour of the server serves.
MaxRequests == 3
\* The concurrent callers of the JwksManager, and the lookups they start.
MaxCallers == 2
MaxLookups == 3
\* The single seconds and the whole cache lifetimes that pass while they do.
MaxSeconds == 2
MaxLifetimes == 1
\* The requests the rate limiter alone is asked about, and the seconds that
\* pass meanwhile.
MaxHits == 4
MaxWait == 3
\* The requests in the rate-limit layer at once, and the seconds that pass
\* while they are there.
MaxClients == 3
MaxPause == 1
\* The connections the Unix socket server accepts.
MaxConns == 3
\* The handles create_client_connection returns in one run.
MaxHandles == 2

\* --------------------------------------------------------------- constants
EXPECTED_ISSUER == "https://auth.surrealdb.com/"
EXPECTED_AUDIENCE == "https://mcp.surrealdb.com/"
WWW_AUTHENTICATE_VALUE == "Bearer resource_metadata='/.well-known/oauth-protected-resource'"
\* An absent optional string (Option::None, or a JSON member that is missing).
None == "none"
\* An absent optional number.
NoNum == -1

OtherIssuer == "https://evil.example/"
OtherAudience == "https://other.example/"

\* ------------------------------------------------------------------- items
Item(t, alg, enc, kid, iss, aud, sub, exp, iat, key) ==
    [t |-> t, alg |-> alg, enc |-> enc, kid |-> kid, iss |-> iss, aud |-> aud,
     sub |-> sub, exp |-> exp, iat |-> iat, key |-> key]

Plain(t) == Item(t, None, None, None, None, None, None, NoNum, NoNum, None)
\* A whitespace character.
Sp == Plain("sp")
\* The character '.'.
Dot == Plain("dot")
\* A run of characters that is not base64url (such as '!').
Junk == Plain("junk")
\* The base64url text of bytes that are no JSON.
Text == Plain("text")
\* The character ','.
Comma == Plain("comma")
\* A run of letters, digits and other visible characters, such as "Bearer"
\* or an IP address (the field alg holds the run).
Word(w) == Item("word", w, None, None, None, None, None, NoNum, NoNum, None)
\* The base64url text of a JSON object with these members (None: missing).
Json(alg, enc, kid, iss, aud, sub, exp, iat) ==
    Item("json", alg, enc, kid, iss, aud, sub, exp, iat, None)
\* The base64url text of the signature key `key` makes of a token's
\* header and payload ("bad": a signature no key of the model verifies).
Sig(key) == Item("sig", None, None, None, None, None, None, NoNum, NoNum, key)
\* The base64url text of an AES-GCM initialisation vector / authentication tag.
Iv == Plain("iv")
Tag == Plain("tag")
\* The base64url text of the ciphertext of plaintext `plain` (a Json, Text
\* item) under key `key`, authenticated together with the header `hdr`.
Ct(key, hdr, plain) ==
    Item(IF plain.t = "json" THEN "ct" ELSE "cttext", hdr.alg, hdr.enc, hdr.iss,
         plain.iss, plain.aud, plain.sub, plain.exp, plain.iat, key)

\* ----------------------------------------------------------------- strings
IsWs(c) == c.t = "sp"

RECURSIVE trim_start(_)
trim_start(s) ==
    IF s # << >> /\ IsWs(Head(s)) THEN trim_start(Tail(s)) ELSE s

RECURSIVE trim_end(_)
trim_end(s) ==
    IF s # << >> /\ IsWs(s[Len(s)]) THEN trim_end(SubSeq(s, 1, Len(s) - 1)) ELSE s

\* str::trim: the string without its leading and trailing whitespace.
trim(s) == trim_end(trim_start(s))

\* str::split('.'): the pieces between the dots, one more than there are dots.
RECURSIVE split(_)
split(s) ==
    IF \E i \in 1..Len(s) : s[i] = Dot
    THEN LET i == CHOOSE j \in 1..Len(s) :
                      s[j] = Dot /\ \A k \in 1..(j - 1) : s[k] # Dot
         IN  <<SubSeq(s, 1, i - 1)>> \o split(SubSeq(s, i + 1, Len(s)))
    ELSE <<s>>

\* str::strip_prefix: the rest of s after the prefix p, if s starts with p.
starts_with(s, p) == Len(s) >= Len(p) /\ SubSeq(s, 1, Len(p)) = p
strip_prefix(s, p) == SubSeq(s, Len(p) + 1, Len(s))

\* ------------------------------------------------------------------ codecs
\* The bytes of no text at all.
Empty == Plain("empty")

\* URL_SAFE_NO_PAD.decode: the bytes a piece of text stands for; the empty
\* text decodes to no bytes, text with whitespace or other characters that
\* are no base64url does not decode.
b64_decode(seg) ==
    IF seg = << >> THEN [ok |-> TRUE, v |-> Empty]
    ELSE IF Len(seg) = 1 /\ seg[1].t \notin {"sp", "dot", "junk"}
         THEN [ok |-> TRUE, v |-> seg[1]]
         ELSE [ok |-> FALSE, v |-> Empty]

\* serde_json::from_slice::<JweHeader>: alg, enc and iss are required strings.
parse_jwe_header(v) ==
    v.t = "json" /\ v.alg # None /\ v.enc # None /\ v.iss # None

\* The signing algorithms jsonwebtoken's Algorithm enum knows, by key family.
AlgFamily(alg) ==
    CASE alg \in {"RS256", "RS384", "RS512"} -> "RSA"
      [] alg \in {"ES256", "ES384"} -> "EC"
      [] alg \in {"HS256"} -> "HMAC"
      [] OTHER -> None

\* jsonwebtoken::decode_header: the first piece must be the base64url text of
\* a JSON object whose alg is an Algorithm.
decode_header(token) ==
    LET parts == split(token)
        d == b64_decode(parts[1])
    IN  IF d.ok /\ d.v.t = "json" /\ AlgFamily(d.v.alg) # None
        THEN [ok |-> TRUE, alg |-> d.v.alg, kid |-> d.v.kid]
        ELSE [ok |-> FALSE, alg |-> None, kid |-> None]

\* TokenClaims as serde reads it from a JSON object: iss is required, the
\* other members are optional.
parse_claims(v) == v.t = "json" /\ v.iss # None
ClaimsOf(v) == [iss |-> v.iss, aud |-> v.aud, exp |-> v.exp, iat |-> v.iat, sub |-> v.sub]
NoClaims == [iss |-> None, aud |-> None, exp |-> NoNum, iat |-> NoNum, sub |-> None]

\* Result<TokenClaims, String>; err names the message of the Err.
Ok(claims) == [ok |-> TRUE, err |-> None, claims |-> claims]
Err(e) == [ok |-> FALSE, err |-> e, claims |-> NoClaims]

\* --------------------------------------------------------- key-set cache
JWKS_CACHE_DURATION == 3600

\* A JwksKey: its kid and kty, whether the components its key type needs
\* (n and e, or x and y) are present and well formed, and the key they make.
JwksKey(kid, kty, complete, material) ==
    [kid |-> kid, kty |-> kty, complete |-> complete, material |-> material]

\* The key set the JWKS endpoint serves.
JwksResponse ==
    << JwksKey("kid1", "RSA", TRUE, "k1"),
       JwksKey("kid2", "RSA", FALSE, "k2"),
       JwksKey("kid3", "oct", TRUE, "k3") >>

\* HashMap::insert of one key under its kid: a later key replaces an
\* earlier one of the same kid.
RECURSIVE store_insert(_, _)
store_insert(store, key) ==
    IF store = << >> THEN <<key>>
    ELSE IF Head(store).kid = key.kid THEN <<key>> \o Tail(store)
         ELSE <<Head(store)>> \o store_insert(Tail(store), key)

RECURSIVE store_all(_, _)
store_all(store, keys) ==
    IF keys = << >> THEN store
    ELSE store_all(store_insert(store, Head(keys)), Tail(keys))

\* Option<CachedJwks>: the cache slot of the JwksManager.
NoCache == [present |-> FALSE, keys |-> << >>, expires_at |-> 0]
\* CachedJwks::new
CachedJwks_new(keys, t) ==
    [present |-> TRUE, keys |-> store_all(<< >>, keys), expires_at |-> t + JWKS_CACHE_DURATION]
\* A variant that takes the entry to be expired at its expiry instant.
is_expired_inclusive(c, t) == t >= c.expires_at
\* CachedJwks::is_expired
is_expired(c, t) == t > c.expires_at
\* CachedJwks::get_key
has_key(c, kid) == \E i \in 1..Len(c.keys) : c.keys[i].kid = kid
get_key(c, kid) == c.keys[CHOOSE i \in 1..Len(c.keys) : c.keys[i].kid = kid]

\* What a GET of the endpoint can give: an error (the request fails, the
\* status is no success, the body is no key set) or a key set.
FetchFailed == [ok |-> FALSE, keys |-> << >>]
FetchOk(keys) == [ok |-> TRUE, keys |-> keys]
FetchOutcomes == {FetchFailed, FetchOk(JwksResponse)}

\* A variant that empties the slot when the fetch fails.
get_jwks_clear_on_failure(c, t, fetch) ==
    IF c.present /\ ~is_expired(c, t)
    THEN [ok |-> TRUE, jwks |-> c, cache |-> c, fetched |-> FALSE]
    ELSE IF ~fetch.ok
         THEN [ok |-> FALSE, jwks |-> NoCache, cache |-> NoCache, fetched |-> TRUE]
         ELSE [ok |-> TRUE, jwks |-> CachedJwks_new(fetch.keys, t),
               cache |-> CachedJwks_new(fetch.keys, t), fetched |-> TRUE]

\* JwksManager::get_jwks at time t, the endpoint answering `fetch` if asked.
get_jwks(c, t, fetch) ==
    IF c.present /\ ~is_expired(c, t)
    THEN [ok |-> TRUE, jwks |-> c, cache |-> c, fetched |-> FALSE]
    ELSE IF ~fetch.ok
         THEN [ok |-> FALSE, jwks |-> NoCache, cache |-> c, fetched |-> TRUE]
         ELSE LET n == CachedJwks_new(fetch.keys, t)
              IN  [ok |-> TRUE, jwks |-> n, cache |-> n, fetched |-> TRUE]

\* A DecodingKey: its family and the key it holds.
DecodingKey(family, material) == [family |-> family, material |-> material]
NoKey == DecodingKey(None, None)

\* The answer for kid from the key set g that get_jwks gave.
key_of(g, kid, lg) ==
    IF ~g.ok
    THEN [ok |-> FALSE, err |-> "JwksFetchFailed", key |-> NoKey, cache |-> g.cache, log |-> lg]
    ELSE IF ~has_key(g.jwks, kid)
    THEN [ok |-> FALSE, err |-> "UnknownKeyId", key |-> NoKey, cache |-> g.cache, log |-> lg]
    ELSE IF get_key(g.jwks, kid).kty \in {"RSA", "EC"} /\ get_key(g.jwks, kid).complete
    THEN [ok |-> TRUE, err |-> None,
          key |-> DecodingKey(get_key(g.jwks, kid).kty, get_key(g.jwks, kid).material),
          cache |-> g.cache, log |-> lg]
    ELSE [ok |-> FALSE, err |-> "KeyBuildFailed", key |-> NoKey, cache |-> g.cache, log |-> lg]

\* A variant that fetches the key set again when a fresh entry does not hold
\* the key identifier.
get_decoding_key_refetch(c, kid, t, fetch) ==
    IF c.present /\ ~is_expired(c, t) /\ ~has_key(c, kid)
    THEN key_of(get_jwks(NoCache, t, fetch), kid, {"jwks", "fetch"})
    ELSE key_of(get_jwks(c, t, fetch), kid,
                {"jwks"} \cup (IF get_jwks(c, t, fetch).fetched THEN {"fetch"} ELSE {}))

\* JwksManager::get_decoding_key
get_decoding_key(c, kid, t, fetch) ==
    LET g == get_jwks(c, t, fetch)
        lg == {"jwks"} \cup (IF g.fetched THEN {"fetch"} ELSE {})
    IN  IF ~g.ok
        THEN [ok |-> FALSE, err |-> "JwksFetchFailed", key |-> NoKey, cache |-> g.cache, log |-> lg]
        ELSE IF ~has_key(g.jwks, kid)
        THEN [ok |-> FALSE, err |-> "UnknownKeyId", key |-> NoKey, cache |-> g.cache, log |-> lg]
        ELSE LET jwk == get_key(g.jwks, kid)
             IN  IF jwk.kty \in {"RSA", "EC"} /\ jwk.complete
                 THEN [ok |-> TRUE, err |-> None, key |-> DecodingKey(jwk.kty, jwk.material),
                       cache |-> g.cache, log |-> lg]
                 ELSE [ok |-> FALSE, err |-> "KeyBuildFailed", key |-> NoKey,
                       cache |-> g.cache, log |-> lg]

\* ------------------------------------------------------- token validation
\* TokenValidationConfig
Config(pk, dk, ve, vi, skew, jm) ==
    [expected_issuer |-> EXPECTED_ISSUER, expected_audience |-> EXPECTED_AUDIENCE,
     jwt_public_key |-> pk, jwe_decryption_key |-> dk, validate_expiration |-> ve,
     validate_issued_at |-> vi, clock_skew_seconds |-> skew, jwks_manager |-> jm]

\* a + b in u64: with overflow checks the addition panics when the sum does
\* not fit, without them it wraps.
u64_add(a, b, oc) ==
    IF a + b > U64Max
    THEN [panic |-> oc, v |-> (a + b) % (U64Max + 1)]
    ELSE [panic |-> FALSE, v |-> a + b]

\* `current_time > exp + config.clock_skew_seconds`
past_expiry(exp, t, skew, oc) ==
    LET sum == u64_add(exp, skew, oc)
    IN  IF sum.panic THEN "panic" ELSE IF t > sum.v THEN "yes" ELSE "no"

\* `iat > current_time + config.clock_skew_seconds`
issued_in_future(iat, t, skew, oc) ==
    LET sum == u64_add(t, skew, oc)
    IN  IF sum.panic THEN "panic" ELSE IF iat > sum.v THEN "yes" ELSE "no"

\* check_times as it would be without the issued-at check.
check_times_expiry_only(claims, config, t, oc) ==
    IF ~(config.validate_expiration /\ claims.exp # NoNum) THEN Ok(claims)
    ELSE IF past_expiry(claims.exp, t, config.clock_skew_seconds, oc) = "panic" THEN Err("Panic")
    ELSE IF past_expiry(claims.exp, t, config.clock_skew_seconds, oc) = "yes" THEN Err("Expired")
    ELSE Ok(claims)

\* The expiry and issued-at checks both validators make on the claims they
\* have read, in this order.
check_times(claims, config, t, oc) ==
    LET e == IF config.validate_expiration /\ claims.exp # NoNum
             THEN past_expiry(claims.exp, t, config.clock_skew_seconds, oc)
             ELSE "no"
        i == IF config.validate_issued_at /\ claims.iat # NoNum
             THEN issued_in_future(claims.iat, t, config.clock_skew_seconds, oc)
             ELSE "no"
    IN  IF e = "panic" THEN Err("Panic")
        ELSE IF e = "yes" THEN Err("Expired")
        ELSE IF i = "panic" THEN Err("Panic")
        ELSE IF i = "yes" THEN Err("IssuedInFuture")
        ELSE Ok(claims)

\* URL_SAFE_NO_PAD.decode of the configured decryption key.
decode_key(k) ==
    CASE k = "B64_K1" -> [ok |-> TRUE, bytes |-> "k1"]
      [] k = "B64_K2" -> [ok |-> TRUE, bytes |-> "k2"]
      [] OTHER -> [ok |-> FALSE, bytes |-> None]

\* The JWE header a ciphertext was authenticated with.
HeaderOfCt(ct) == Json(ct.alg, ct.enc, None, ct.kid, None, None, NoNum, NoNum)
\* The plaintext of a ciphertext.
PlainOfCt(ct) ==
    IF ct.t = "ct"
    THEN Json(None, None, None, ct.iss, ct.aud, ct.sub, ct.exp, ct.iat)
    ELSE Text

\* JweContext::deserialize_compact with a direct-key decrypter: the
\* encrypted-key piece is empty, the IV and tag decode, and the ciphertext
\* is one made under this key together with this token's header.
deserialize_compact(parts, bytes) ==
    IF /\ parts[2] = << >>
       /\ parts[3] = <<Iv>>
       /\ parts[5] = <<Tag>>
       /\ Len(parts[4]) = 1
       /\ parts[4][1].t \in {"ct", "cttext"}
       /\ parts[4][1].key = bytes
       /\ parts[1] = <<HeaderOfCt(parts[4][1])>>
    THEN [ok |-> TRUE, v |-> PlainOfCt(parts[4][1])]
    ELSE [ok |-> FALSE, v |-> Empty]

\* The branch with a decryption key as it would be if a failure to decode
\* the key or to decrypt fell back to the claims of the header.
jwe_with_key_fallback(parts, config, t, oc) ==
    IF decode_key(config.jwe_decryption_key).ok
       /\ deserialize_compact(parts, decode_key(config.jwe_decryption_key).bytes).ok
    THEN LET d == deserialize_compact(parts, decode_key(config.jwe_decryption_key).bytes)
         IN  IF ~parse_claims(d.v) THEN Err("ParseClaimsFailed")
             ELSE IF d.v.iss # config.expected_issuer THEN Err("IssuerMismatch")
             ELSE check_times(ClaimsOf(d.v), config, t, oc)
    ELSE IF parts[1][1].iss # config.expected_issuer THEN Err("IssuerMismatch")
    ELSE Ok([iss |-> parts[1][1].iss, aud |-> None, exp |-> NoNum, iat |-> NoNum, sub |-> None])

\* The branch with a decryption key as it would be if it compared the
\* audience of the decrypted claims as the signed path does.
jwe_with_key_audience(parts, config, t, oc) ==
    IF ~decode_key(config.jwe_decryption_key).ok THEN Err("DecodeKeyFailed")
    ELSE IF ~deserialize_compact(parts, decode_key(config.jwe_decryption_key).bytes).ok
    THEN Err("DecryptFailed")
    ELSE LET d == deserialize_compact(parts, decode_key(config.jwe_decryption_key).bytes)
         IN  IF ~parse_claims(d.v) THEN Err("ParseClaimsFailed")
             ELSE IF d.v.iss # config.expected_issuer THEN Err("IssuerMismatch")
             ELSE IF d.v.aud # config.expected_audience THEN Err("AudienceMismatch")
             ELSE check_times(ClaimsOf(d.v), config, t, oc)

\* The branch with a decryption key as it would be if it compared the
\* issuer of the header as well.
jwe_with_key_header_issuer(parts, config, t, oc) ==
    IF ~decode_key(config.jwe_decryption_key).ok THEN Err("DecodeKeyFailed")
    ELSE IF ~deserialize_compact(parts, decode_key(config.jwe_decryption_key).bytes).ok
    THEN Err("DecryptFailed")
    ELSE LET d == deserialize_compact(parts, decode_key(config.jwe_decryption_key).bytes)
         IN  IF ~parse_claims(d.v) THEN Err("ParseClaimsFailed")
             ELSE IF d.v.iss # config.expected_issuer THEN Err("IssuerMismatch")
             ELSE IF parts[1][1].iss # config.expected_issuer THEN Err("IssuerMismatch")
             ELSE check_times(ClaimsOf(d.v), config, t, oc)

\* validate_jwe_token, the branch with a decryption key.
jwe_with_key(parts, config, t, oc) ==
    LET k == decode_key(config.jwe_decryption_key)
    IN  IF ~k.ok THEN Err("DecodeKeyFailed")
        ELSE LET d == deserialize_compact(parts, k.bytes)
             IN  IF ~d.ok THEN Err("DecryptFailed")
                 ELSE IF ~parse_claims(d.v) THEN Err("ParseClaimsFailed")
                 ELSE IF d.v.iss # config.expected_issuer THEN Err("IssuerMismatch")
                 ELSE check_times(ClaimsOf(d.v), config, t, oc)

\* The branch without a decryption key as it would be without its issuer check.
jwe_header_only_any_issuer(header, config) ==
    Ok([iss |-> header.iss, aud |-> None, exp |-> NoNum, iat |-> NoNum, sub |-> None])

\* validate_jwe_token, the branch without a decryption key.
jwe_header_only(header, config) ==
    IF header.iss # config.expected_issuer THEN Err("IssuerMismatch")
    ELSE Ok([iss |-> header.iss, aud |-> None, exp |-> NoNum, iat |-> NoNum, sub |-> None])

\* validate_jwe_token as it would be if the issuer of the header were
\* compared before the algorithms.
validate_jwe_token_issuer_first(token, config, t, oc) ==
    LET parts == split(token)
        d == b64_decode(parts[1])
    IN  IF Len(parts) # 5 THEN [res |-> Err("InvalidJweFormat"), log |-> {"jwe"}]
        ELSE IF ~d.ok THEN [res |-> Err("JweHeaderDecode"), log |-> {"jwe"}]
        ELSE IF ~parse_jwe_header(d.v) THEN [res |-> Err("JweHeaderParse"), log |-> {"jwe"}]
        ELSE IF d.v.iss # config.expected_issuer
             THEN [res |-> Err("IssuerMismatch"), log |-> {"jwe"}]
        ELSE IF d.v.alg # "dir" THEN [res |-> Err("UnsupportedAlgorithm"), log |-> {"jwe"}]
        ELSE IF d.v.enc # "A256GCM" THEN [res |-> Err("UnsupportedAlgorithm"), log |-> {"jwe"}]
        ELSE IF config.jwe_decryption_key # None
             THEN [res |-> jwe_with_key(parts, config, t, oc), log |-> {"jwe", "jwe_key"}]
             ELSE [res |-> jwe_header_only(d.v, config), log |-> {"jwe"}]

\* validate_jwe_token: the result, and what it used (log).
validate_jwe_token(token, config, t, oc) ==
    LET parts == split(token)
        d == b64_decode(parts[1])
    IN  IF Len(parts) # 5 THEN [res |-> Err("InvalidJweFormat"), log |-> {"jwe"}]
        ELSE IF ~d.ok THEN [res |-> Err("JweHeaderDecode"), log |-> {"jwe"}]
        ELSE IF ~parse_jwe_header(d.v) THEN [res |-> Err("JweHeaderParse"), log |-> {"jwe"}]
        ELSE IF d.v.alg # "dir" THEN [res |-> Err("UnsupportedAlgorithm"), log |-> {"jwe"}]
        ELSE IF d.v.enc # "A256GCM" THEN [res |-> Err("UnsupportedAlgorithm"), log |-> {"jwe"}]
        ELSE IF config.jwe_decryption_key # None
             THEN [res |-> jwe_with_key(parts, config, t, oc), log |-> {"jwe", "jwe_key"}]
             ELSE [res |-> jwe_header_only(d.v, config), log |-> {"jwe"}]

\* DecodingKey::from_rsa_pem / from_ec_pem of the configured public key.
from_pem(pem, family) ==
    IF (family = "RSA" /\ pem = "PEM_RSA") \/ (family = "EC" /\ pem = "PEM_EC")
    THEN [ok |-> TRUE, key |-> DecodingKey(family, "kpem")]
    ELSE [ok |-> FALSE, key |-> NoKey]

\* The choice of the decoding key as it would be if a header without a key
\* identifier fell back to the fixed secret instead of failing.
select_key_fallback(header, config, c, t, fetch) ==
    IF config.jwks_manager /\ header.kid # None
    THEN get_decoding_key(c, header.kid, t, fetch)
    ELSE [ok |-> TRUE, err |-> None, key |-> DecodingKey("HMAC", "dummy-key"), cache |-> c,
          log |-> {"dummy_key"}]

\* The choice of the decoding key as it would be if a static public key,
\* when configured, came before the key-set cache.
select_key_static_first(header, config, c, t, fetch) ==
    IF config.jwt_public_key # None /\ from_pem(config.jwt_public_key, AlgFamily(header.alg)).ok
    THEN [ok |-> TRUE, err |-> None,
          key |-> from_pem(config.jwt_public_key, AlgFamily(header.alg)).key, cache |-> c,
          log |-> {"static_key"}]
    ELSE IF config.jwks_manager
    THEN IF header.kid = None
         THEN [ok |-> FALSE, err |-> "MissingKeyId", key |-> NoKey, cache |-> c, log |-> {}]
         ELSE get_decoding_key(c, header.kid, t, fetch)
    ELSE [ok |-> TRUE, err |-> None, key |-> DecodingKey("HMAC", "dummy-key"), cache |-> c,
          log |-> {"dummy_key"}]

\* validate_jwt_token: where the decoding key comes from.
select_key(header, config, c, t, fetch) ==
    IF config.jwks_manager
    THEN IF header.kid = None
         THEN [ok |-> FALSE, err |-> "MissingKeyId", key |-> NoKey, cache |-> c, log |-> {}]
         ELSE get_decoding_key(c, header.kid, t, fetch)
    ELSE IF config.jwt_public_key # None
    THEN IF AlgFamily(header.alg) \in {"RSA", "EC"}
         THEN LET k == from_pem(config.jwt_public_key, AlgFamily(header.alg))
              IN  IF k.ok
                  THEN [ok |-> TRUE, err |-> None, key |-> k.key, cache |-> c, log |-> {"static_key"}]
                  ELSE [ok |-> FALSE, err |-> "KeyBuildFailed", key |-> NoKey, cache |-> c,
                        log |-> {"static_key"}]
         ELSE [ok |-> FALSE, err |-> "UnsupportedJwtAlgorithm", key |-> NoKey, cache |-> c,
               log |-> {"static_key"}]
    ELSE [ok |-> TRUE, err |-> None, key |-> DecodingKey("HMAC", "dummy-key"), cache |-> c,
          log |-> {"dummy_key"}]

\* jsonwebtoken's verification of the signature piece against a key.
verify_signature(parts, key, alg) ==
    IF key.family # AlgFamily(alg) THEN "InvalidAlgorithm"
    ELSE IF /\ Len(parts[3]) = 1
            /\ parts[3][1].t = "sig"
            /\ parts[3][1].key = key.material
         THEN "ok"
         ELSE "SignatureInvalid"

\* validate_claims as it would be with `validation.validate_aud = false`.
validate_claims_any_audience(v, config, t) ==
    IF v.exp = NoNum \/ v.sub = None \/ v.iss = None
    THEN "MissingRequiredClaim"
    ELSE IF v.exp < t - config.clock_skew_seconds THEN "Expired"
    ELSE IF v.iss # config.expected_issuer THEN "IssuerMismatch"
    ELSE "ok"

\* jsonwebtoken's validation of the claims under the Validation that
\* validate_jwt_token builds: iss, aud, exp and sub are required, exp is
\* checked with the leeway, then the issuer, then the audience.
validate_claims(v, config, t) ==
    IF v.exp = NoNum \/ v.sub = None \/ v.iss = None \/ v.aud = None
    THEN "MissingRequiredClaim"
    ELSE IF v.exp < t - config.clock_skew_seconds THEN "Expired"
    ELSE IF v.iss # config.expected_issuer THEN "IssuerMismatch"
    ELSE IF v.aud # config.expected_audience THEN "AudienceMismatch"
    ELSE "ok"

\* decode as it would be if the claims were validated before the signature.
decode_claims_first(token, key, alg, config, t) ==
    LET parts == split(token)
        s == verify_signature(parts, key, alg)
        p == b64_decode(parts[2])
    IN  IF p.ok /\ parse_claims(p.v) /\ validate_claims(p.v, config, t) # "ok"
        THEN Err(validate_claims(p.v, config, t))
        ELSE IF s # "ok" THEN Err(s)
        ELSE IF ~p.ok THEN Err("ClaimsDecode")
        ELSE IF ~parse_claims(p.v) THEN Err("ClaimsParse")
        ELSE Ok(ClaimsOf(p.v))

\* jsonwebtoken::decode::<TokenClaims>: the signature first, then the
\* payload is read, then its claims are validated.
decode(token, key, alg, config, t) ==
    LET parts == split(token)
        s == verify_signature(parts, key, alg)
        p == b64_decode(parts[2])
    IN  IF s # "ok" THEN Err(s)
        ELSE IF ~p.ok THEN Err("ClaimsDecode")
        ELSE IF ~parse_claims(p.v) THEN Err("ClaimsParse")
        ELSE LET c == validate_claims(p.v, config, t)
             IN  IF c # "ok" THEN Err(c) ELSE Ok(ClaimsOf(p.v))

\* validate_jwt_token: the result, the cache slot after it, and what it used.
validate_jwt_token(token, config, t, oc, c, fetch) ==
    LET header == decode_header(token)
    IN  IF ~header.ok
        THEN [res |-> Err("JwtHeaderDecode"), cache |-> c, log |-> {"jwt"}]
        ELSE LET k == select_key(header, config, c, t, fetch)
             IN  IF ~k.ok
                 THEN [res |-> Err(k.err), cache |-> k.cache, log |-> {"jwt"} \cup k.log]
                 ELSE LET d == decode(token, k.key, header.alg, config, t)
                      IN  [res |-> IF d.ok THEN check_times(d.claims, config, t, oc) ELSE d,
                           cache |-> k.cache,
                           log |-> {"jwt", "sig"} \cup k.log]

\* validate_bearer_token as it would be without `let token = token.trim()`.
validate_bearer_token_untrimmed(raw, config, t, oc, c, fetch) ==
    IF raw = << >> THEN [res |-> Err("EmptyToken"), cache |-> c, log |-> {}]
    ELSE IF Len(split(raw)) = 5
         THEN [res |-> validate_jwe_token(raw, config, t, oc).res, cache |-> c,
               log |-> validate_jwe_token(raw, config, t, oc).log]
    ELSE IF Len(split(raw)) = 3 THEN validate_jwt_token(raw, config, t, oc, c, fetch)
    ELSE [res |-> Err("MalformedToken"), cache |-> c, log |-> {}]

\* validate_bearer_token
validate_bearer_token(raw, config, t, oc, c, fetch) ==
    LET token == trim(raw)
        n == Len(split(token))
    IN  IF token = << >> THEN [res |-> Err("EmptyToken"), cache |-> c, log |-> {}]
        ELSE IF n = 5
             THEN LET r == validate_jwe_token(token, config, t, oc)
                  IN  [res |-> r.res, cache |-> c, log |-> r.log]
        ELSE IF n = 3 THEN validate_jwt_token(token, config, t, oc, c, fetch)
        ELSE [res |-> Err("MalformedToken"), cache |-> c, log |-> {}]

\* ------------------------------------------------- rate-limit key extractor
\* A header of a request: whether it is there, whether HeaderValue::to_str
\* reads it (it holds visible ASCII only), and its value.
Header(v) == [present |-> TRUE, ascii |-> TRUE, v |-> v]
NoHeader == [present |-> FALSE, ascii |-> TRUE, v |-> << >>]
BinaryHeader == [present |-> TRUE, ascii |-> FALSE, v |-> <<Junk>>]

\* `.get(name).and_then(|h| h.to_str().ok())`
to_str_ok(h) == h.present /\ h.ascii

BearerPrefix == <<Word("Bearer"), Sp>>

\* The first piece of `s.split(',')`.
RECURSIVE first_entry(_)
first_entry(s) ==
    IF s = << >> \/ Head(s) = Comma THEN << >>
    ELSE <<Head(s)>> \o first_entry(Tail(s))

ProxyHeaders ==
    <<"X-Real-IP", "X-Client-IP", "CF-Connecting-IP", "True-Client-IP",
      "X-Originating-IP", "X-Remote-IP", "X-Remote-Addr">>

RECURSIVE first_proxy_header(_, _)
first_proxy_header(req, i) ==
    IF i > Len(ProxyHeaders) THEN [some |-> FALSE, v |-> << >>]
    ELSE IF to_str_ok(req.headers[ProxyHeaders[i]])
         THEN [some |-> TRUE, v |-> req.headers[ProxyHeaders[i]].v]
         ELSE first_proxy_header(req, i + 1)

\* RobustIpKeyExtractor::extract
extract(req) ==
    LET auth == req.headers["Authorization"]
        xff == req.headers["X-Forwarded-For"]
        other == first_proxy_header(req, 1)
    IN  IF to_str_ok(auth) /\ starts_with(auth.v, BearerPrefix)
        THEN trim(strip_prefix(auth.v, BearerPrefix))
        ELSE IF to_str_ok(xff) THEN trim(first_entry(xff.v))
        ELSE IF other.some THEN other.v
        ELSE IF req.socket_addr # None THEN <<Word(req.socket_addr)>>
        ELSE <<Word("unknown")>>

\* ------------------------------------------------------------ rate limiter
\* GovernorConfigBuilder::per_second(rps).burst_size(burst): one cell is
\* replenished every `rps` seconds, up to `burst` cells.
replenish_1_per == RateLimitRps
max_burst == RateLimitBurst

\* governor's GCRA: the state of a key is its theoretical arrival time.
gcra_t == replenish_1_per
gcra_tau == replenish_1_per * max_burst

has_state(lim, key) == \E e \in lim : e.key = key
state_of(lim, key) == (CHOOSE e \in lim : e.key = key).tat
Max(a, b) == IF a >= b THEN a ELSE b

\* check_key as it would be if the limiter kept one state for all keys.
check_key_one_state(lim, key, t0) ==
    LET tat == IF lim # {} THEN (CHOOSE e \in lim : TRUE).tat ELSE t0 + gcra_t
        earliest == Max(tat - gcra_tau, 0)
    IN  IF t0 < earliest
        THEN [admit |-> FALSE, lim |-> lim]
        ELSE [admit |-> TRUE, lim |-> {[key |-> key, tat |-> Max(tat, t0) + gcra_t]}]

\* RateLimiter::check_key at time t0 since the limiter's start.
check_key(lim, key, t0) ==
    LET tat == IF has_state(lim, key) THEN state_of(lim, key) ELSE t0 + gcra_t
        earliest == Max(tat - gcra_tau, 0)
    IN  IF t0 < earliest
        THEN [admit |-> FALSE, lim |-> lim]
        ELSE [admit |-> TRUE,
              lim |-> {e \in lim : e.key # key} \cup {[key |-> key, tat |-> Max(tat, t0) + gcra_t]}]

\* Gcra::test_and_update on the state prev of a key (NoNum: none yet) at t0:
\* the verdict, and the state to store if the request is admitted.
test_and_update(prev, t0) ==
    [admit |-> ~(t0 < Max((IF prev = NoNum THEN t0 + gcra_t ELSE prev) - gcra_tau, 0)),
     next |-> Max(IF prev = NoNum THEN t0 + gcra_t ELSE prev, t0) + gcra_t]

\* The state of a key in the limiter's map, and the map with it replaced.
load(lim, key) == IF has_state(lim, key) THEN state_of(lim, key) ELSE NoNum
store(lim, key, tat) == {e \in lim : e.key # key} \cup {[key |-> key, tat |-> tat]}

\* AtomicU64::compare_exchange_weak in InMemoryState::measure_and_replace_one:
\* the new state is stored if the state is still the one that was read (and
\* the exchange does not fail spuriously), else the state as it is now is
\* returned for another round.
compare_exchange_weak(current, expected, new, spurious) ==
    IF current = expected /\ ~spurious
    THEN [ok |-> TRUE, value |-> new]
    ELSE [ok |-> FALSE, value |-> current]

\* A tool of the MCP service counts its failure.
tool_error(m) == [m EXCEPT !.total_errors = m.total_errors + 1]

\* A variant that counts a refused request as an error only.
error_handler_total_only(m) == [m EXCEPT !.total_errors = m.total_errors + 1]
\* The error_handler of the rate-limit layer: its two counters, and its response.
error_handler(m) ==
    [total_errors |-> m.total_errors + 1,
     total_rate_limit_errors |-> m.total_rate_limit_errors + 1]

\* ------------------------------------------------------------ HTTP server
\* A path is the sequence of its pieces: "/health" is <<"health">>.
\* `path.starts_with("/.well-known/") || path == "/health"`
auth_exempt(path) ==
    (Len(path) >= 2 /\ path[1] = ".well-known") \/ path = <<"health">>

\* The router of start_http_server: the service a path is routed to.
route(path) ==
    IF path = <<"health">> THEN "health"
    ELSE IF path # << >> /\ path[1] = "mcp" THEN "mcp"
    ELSE IF path = <<".well-known", "oauth-protected-resource">> THEN "well_known"
    ELSE "not_found"

\* What require_bearer_auth makes of the validator's result.
on_validated(r) ==
    [next |-> r.res.ok, validated |-> TRUE, res |-> r.res, cache |-> r.cache]

\* require_bearer_auth: whether the validator ran, whether the request goes
\* on to the next layer, and the validator's result.
require_bearer_auth(cfg, req, t, oc, c, fetch) ==
    IF auth_exempt(req.path)
    THEN [next |-> TRUE, validated |-> FALSE, res |-> Err(None), cache |-> c]
    ELSE IF to_str_ok(req.headers["Authorization"])
            /\ starts_with(req.headers["Authorization"].v, BearerPrefix)
    THEN on_validated(
            validate_bearer_token(strip_prefix(req.headers["Authorization"].v, BearerPrefix),
                                  cfg, t, oc, c, fetch))
    ELSE [next |-> FALSE, validated |-> FALSE, res |-> Err(None), cache |-> c]

\* A response: 0 stands for no response at all (the task serving the
\* request panicked).
Response(status, www, body) == [status |-> status, www |-> www, body |-> body]

\* The handler a request reaches, and its response.
handle(req) ==
    IF route(req.path) = "not_found" THEN Response(404, None, None)
    ELSE Response(200, None, route(req.path))

\* The response the error_handler of the rate-limit layer builds.
too_many_requests == Response(429, None, "Rate limit exceeded")

\* The rate-limit layer on the limiter's verdict g for the request's key:
\* the request goes on to the trace layer and the router, or is answered 429.
governed(req, key, lim, g) ==
    IF g.admit
    THEN [trace |-> <<"limit", "trace", "handler">>, key |-> key, lim |-> g.lim,
          refused |-> FALSE, resp |-> handle(req)]
    ELSE [trace |-> <<"limit">>, key |-> key, lim |-> lim,
          refused |-> TRUE, resp |-> too_many_requests]

keyed(req, key, lim, t0) == governed(req, key, lim, check_key(lim, key, t0))

\* The layers below the authentication layer: the rate limiter, the trace
\* layer, the router.
limited(req, lim, t0) == keyed(req, extract(req), lim, t0)

\* The stack on the authentication layer's outcome a and the lower layers'
\* outcome l.
layered(a, l, disabled, lim, c) ==
    IF disabled
    THEN [trace |-> l.trace, validated |-> FALSE, res |-> Err(None), key |-> l.key,
          lim |-> l.lim, refused |-> l.refused, resp |-> l.resp, cache |-> c]
    ELSE IF a.next
    THEN [trace |-> <<"auth">> \o l.trace, validated |-> a.validated, res |-> a.res,
          key |-> l.key, lim |-> l.lim, refused |-> l.refused, resp |-> l.resp,
          cache |-> a.cache]
    ELSE [trace |-> <<"auth">>, validated |-> a.validated, res |-> a.res,
          key |-> << >>, lim |-> lim, refused |-> FALSE, cache |-> a.cache,
          resp |-> IF a.res.err = "Panic"
                   THEN Response(0, None, None)
                   ELSE Response(401, WWW_AUTHENTICATE_VALUE, None)]

\* One request through the stack start_http_server builds: a layer added
\* later is outside the layers added before it, and the authentication
\* layer is added last, unless authentication is disabled.
serve(req, disabled, cfg, lim, t, oc, c, fetch) ==
    layered(require_bearer_auth(cfg, req, t, oc, c, fetch),
            limited(req, lim, t - NowInit), disabled, lim, c)

\* ------------------------------------------------------------ start_server
\* What a start function did before it serves or fails, in order.
started(mode, effects) == [mode |-> mode, ok |-> TRUE, err |-> None, effects |-> effects]
start_failed(mode, err, effects) == [mode |-> mode, ok |-> FALSE, err |-> err, effects |-> effects]

\* start_stdio_server up to rmcp::serve_server: logging, the session, and
\* the connection the session tries to open if an endpoint is configured.
start_stdio_server(cfg) ==
    started("stdio", <<"logging", "session">>
                     \o (IF cfg.endpoint # None THEN <<"connect">> ELSE << >>))

\* start_unix_server up to its loop: logging, the socket file removed if
\* there is one, the listener bound.
start_unix_server(cfg, host) ==
    IF host.socket_exists /\ ~host.remove_ok THEN start_failed("unix", "Io", <<"logging">>)
    ELSE IF ~host.bind_ok
    THEN start_failed("unix", "Io",
                <<"logging">> \o (IF host.socket_exists THEN <<"remove_file">> ELSE << >>))
    ELSE started("unix",
                 <<"logging">> \o (IF host.socket_exists THEN <<"remove_file">> ELSE << >>)
                 \o <<"listener">>)

\* start_http_server up to axum::serve: logging, the listener bound.
start_http_server(cfg, host) ==
    IF ~host.bind_ok THEN start_failed("http", "BindFailed", <<"logging">>)
    ELSE started("http", <<"logging", "listener">>)

\* A variant that serves the socket when both addresses are configured.
start_server_prefer_socket(cfg, host) ==
    IF cfg.socket_path # None THEN start_unix_server(cfg, host)
    ELSE IF cfg.bind_address # None THEN start_http_server(cfg, host)
    ELSE start_stdio_server(cfg)

\* start_server
start_server(cfg, host) ==
    IF cfg.bind_address = None /\ cfg.socket_path = None THEN start_stdio_server(cfg)
    ELSE IF cfg.bind_address # None /\ cfg.socket_path = None THEN start_http_server(cfg, host)
    ELSE IF cfg.bind_address = None /\ cfg.socket_path # None THEN start_unix_server(cfg, host)
    ELSE start_failed(None, "BothAddresses", << >>)

\* ------------------------------------------------------ start_unix_server
\* AtomicU64::fetch_sub(1) wraps below zero; Wrapped stands for 2^64 - 1.
Wrapped == -1
fetch_add(v) == IF v = Wrapped THEN 0 ELSE v + 1
fetch_sub(v) == IF v = 0 THEN Wrapped ELSE v - 1

\* ---------------------------------------------------------- SurrealService
\* Option<Surreal<Any>>::None; the handles create_client_connection returns
\* are numbered from 1.
NoHandle == 0
\* The Surreal<Any> that db::create_client_connection returns: the url it
\* connected to and the namespace and database it selected, where given.
create_client_connection(url, namespace, database) ==
    [endpoint |-> url, ns |-> namespace, db |-> database]
\* Storing over the Option drops the Surreal<Any> that was there.
NoInstance == create_client_connection(None, None, None)
drop(instances, h) == IF h = NoHandle THEN instances ELSE [instances EXCEPT ![h] = NoInstance]
\* What use_ns and use_db select on a Surreal<Any>.
use(instance, op, value) ==
    IF op = "use_namespace" THEN [instance EXCEPT !.ns = value]
    ELSE IF op = "use_database" THEN [instance EXCEPT !.db = value]
    ELSE instance
\* The startup configuration a SurrealService carries.
SurrealService(endpoint, namespace, database) ==
    [endpoint |-> endpoint, namespace |-> namespace, database |-> database]
ConnectParams(endpoint, namespace, database) ==
    [endpoint |-> endpoint, namespace |-> namespace, database |-> database]
\* What a tool returns: CallToolResult::success or McpError::internal_error,
\* the message as its fixed text followed by the values formatted into it.
success(message) == [ok |-> TRUE, message |-> message]
internal_error(message) == [ok |-> FALSE, message |-> message]
NotConnected ==
    internal_error(<<"Not connected to any SurrealDB endpoint. Use connect_endpoint first.">>)
or_else(requested, configured) == IF requested # None THEN requested ELSE configured
\* A tool up to its first await: whether it returns at once and what, how
\* much it adds to surrealmcp.total_errors, and the namespace and database
\* it goes on with.
returned(res, errors) == [rejected |-> TRUE, res |-> res, errors |-> errors, ns |-> None, db |-> None]
proceeds(ns, db) == [rejected |-> FALSE, res |-> NotConnected, errors |-> 0, ns |-> ns, db |-> db]

\* connect_endpoint as it would be if it checked the endpoint alone.
connect_endpoint_endpoint_only(self, params) ==
    IF self.endpoint # None /\ params.endpoint # self.endpoint
    THEN returned(internal_error(<<"Cannot connect to endpoint", params.endpoint,
                                   "Server is configured to only use endpoint", self.endpoint>>), 1)
    ELSE proceeds(or_else(params.namespace, self.namespace), or_else(params.database, self.database))
connect_endpoint(self, params) ==
    IF self.endpoint # None /\ params.endpoint # self.endpoint
    THEN returned(internal_error(<<"Cannot connect to endpoint", params.endpoint,
                                   "Server is configured to only use endpoint", self.endpoint>>), 1)
    ELSE IF self.namespace # None /\ params.namespace # None /\ params.namespace # self.namespace
    THEN returned(internal_error(<<"Cannot use namespace", params.namespace,
                                   "Server is configured to only use namespace", self.namespace>>), 0)
    ELSE IF self.database # None /\ params.database # None /\ params.database # self.database
    THEN returned(internal_error(<<"Cannot use database", params.database,
                                   "Server is configured to only use database", self.database>>), 0)
    ELSE proceeds(or_else(params.namespace, self.namespace), or_else(params.database, self.database))

use_namespace_unchecked(self, namespace) == proceeds(namespace, None)
use_namespace(self, namespace) ==
    IF self.namespace # None /\ namespace # self.namespace
    THEN returned(internal_error(<<"Cannot use namespace", namespace,
                                   "Server is configured to only use namespace", self.namespace>>), 1)
    ELSE proceeds(namespace, None)

use_database(self, database) ==
    IF self.database # None /\ database # self.database
    THEN returned(internal_error(<<"Cannot use database", database,
                                   "Server is configured to only use database", self.database>>), 1)
    ELSE proceeds(None, database)

\* disconnect_endpoint as it would be if it refused a session that has no
\* handle.
disconnect_endpoint_connected_only(h) ==
    IF h = NoHandle THEN [db |-> NoHandle, res |-> NotConnected, errors |-> 1]
    ELSE [db |-> NoHandle, res |-> success(<<"Successfully disconnected from SurrealDB endpoint">>),
          errors |-> 0]
\* disconnect_endpoint under the guard: None is stored whatever was there.
disconnect_endpoint(h) ==
    [db |-> NoHandle, res |-> success(<<"Successfully disconnected from SurrealDB endpoint">>),
     errors |-> 0]

\* The tools that lock the handle and await the engine on it, and what each
\* one calls there.
Engine ==
    [query |-> "execute_query", use_namespace |-> "use_ns", use_database |-> "use_db"]
\* What such a tool returns when the engine has answered; the message of a
\* query is the engine's.
answered(op, value, ok) ==
    IF op = "query"
    THEN IF ok THEN success(<<"response">>) ELSE internal_error(<<"engine error">>)
    ELSE IF op = "use_namespace"
    THEN IF ok THEN success(<<"Successfully switched to namespace", value>>)
         ELSE internal_error(<<"Failed to change namespace to", value>>)
    ELSE IF ok THEN success(<<"Successfully switched to database", value>>)
         ELSE internal_error(<<"Failed to change database to", value>>)
\* What the failed answer adds to surrealmcp.total_errors.
answer_errors(op, ok) == IF ok \/ op = "query" THEN 0 ELSE 1

\* The match on the locked handle: with None the tool returns at once.
match_db_guard_silent(h) ==
    [some |-> h # NoHandle, res |-> success(<<"response">>), errors |-> 0]
match_db_guard(h) == [some |-> h # NoHandle, res |-> NotConnected, errors |-> 1]

\* initialize_connection: nothing without a configured endpoint, else one
\* create_client_connection whose outcome decides.
initialize_connection(self, outcome) ==
    IF self.endpoint = None THEN [ok |-> TRUE, called |-> FALSE, connected |-> FALSE]
    ELSE IF outcome = "ok" THEN [ok |-> TRUE, called |-> TRUE, connected |-> TRUE]
    ELSE [ok |-> FALSE, called |-> TRUE, connected |-> FALSE]
\* start_stdio_server and the tasks of start_unix_server call
\* initialize_connection before they serve; the factory of the HTTP server
\* calls with_config alone.
initializes(transport) == transport \in {"stdio", "unix"}
\* with_config puts the handle behind a Mutex of the service's own, named
\* here like the connection.
with_config_shared(connection_id, self) == [self |-> self, db |-> "s1"]
with_config(connection_id, self) == [self |-> self, db |-> connection_id]

\* ------------------------------------------------------------ axum::serve
\* What the signal future leaves behind: the interrupt, or the panic of
\* expect, which unwinds the signal task or aborts the process.
signal_after(outcome) ==
    IF outcome = "interrupt" THEN "received"
    ELSE IF outcome = "unwind" THEN "panicked"
    ELSE "aborted"
\* The signal channel is closed when the signal task has ended, by return
\* or by unwinding.
closed(signal) == signal \in {"received", "panicked"}
\* The close channel is closed when every connection task has ended.
drained_at_once(conn) == TRUE
drained(conn) == \A c \in DOMAIN conn : conn[c].state \in {"none", "closed"}

\* ------------------------------------------------------------------ inputs
RECURSIVE SeqsUpTo(_, _)
SeqsUpTo(S, n) ==
    IF n = 0 THEN {<< >>}
    ELSE LET shorter == SeqsUpTo(S, n - 1)
         IN  shorter \cup {Append(s, x) : s \in {q \in shorter : Len(q) = n - 1}, x \in S}

\* Token strings of whitespace, dots and characters that are no base64url,
\* and strings of five, six and seven pieces.
RawTokens ==
    SeqsUpTo({Sp, Dot, Junk}, MaxRawLen)
    \cup {<<Dot, Dot, Dot, Dot>>,
          <<Junk, Dot, Junk, Dot, Junk, Dot, Junk, Dot, Junk, Dot, Junk>>,
          <<Dot, Dot, Dot, Dot, Dot, Dot>>}

Issuers == {EXPECTED_ISSUER, OtherIssuer}
Audiences == {None, EXPECTED_AUDIENCE, OtherAudience}
Subjects == {None, "user"}
ExpValues == {NoNum} \cup 0..U64Max
IatValues == {NoNum} \cup NowInit..U64Max

\* JSON claim sets: every expiry and issue time with the expected issuer,
\* audience and a subject, and every issuer, audience and subject with an
\* expiry that is absent, long past or now and an issue time that is now or
\* the largest; a claim set without iss; and a payload that is no JSON.
ClaimSets ==
    {Json(None, None, None, EXPECTED_ISSUER, EXPECTED_AUDIENCE, "user", exp, iat) :
        exp \in ExpValues, iat \in IatValues}
    \cup {Json(None, None, None, iss, aud, sub, exp, iat) :
            iss \in Issuers, aud \in Audiences, sub \in Subjects,
            exp \in {NoNum, 0, NowInit}, iat \in {NowInit, U64Max}}
GoodClaims == Json(None, None, None, EXPECTED_ISSUER, EXPECTED_AUDIENCE, "user", NowInit, NowInit)
NoIssClaims == Json(None, None, None, None, EXPECTED_AUDIENCE, "user", NowInit, NowInit)
Payloads == ClaimSets \cup {NoIssClaims, Text}

JwtHeader(alg, kid) == Json(alg, None, kid, None, None, None, NoNum, NoNum)
JwtToken(h, p, s) == <<h, Dot, p, Dot, s>>

\* Claim sets that differ in issuer, audience and expiry only.
SomeClaimSets == {p \in ClaimSets : p.sub = "user" /\ p.iat = NowInit}

\* Three-piece tokens: every payload under a header naming a key of the key
\* set, signed with that key; some payloads with a signature that does not
\* verify, signed with the static key and with the fallback secret; and
\* well-signed tokens whose header names no key, an unknown key, a key the
\* key set holds without its components, or is no JSON.
SignedTokens ==
    {JwtToken(JwtHeader("RS256", "kid1"), p, Sig("k1")) : p \in Payloads}
    \cup {JwtToken(JwtHeader("RS256", "kid1"), p, Sig(k)) : p \in SomeClaimSets, k \in {"bad", "kpem"}}
    \cup {JwtToken(JwtHeader("HS256", None), p, Sig("dummy-key")) : p \in SomeClaimSets}
    \cup {JwtToken(h, GoodClaims, Sig("k1")) :
            h \in {JwtHeader("RS256", None), JwtHeader("RS256", "kidX"),
                   JwtHeader("RS256", "kid2"), JwtHeader("HS256", "kid1"), Text}}
    \cup {<<Sp>> \o JwtToken(JwtHeader("RS256", "kid1"), GoodClaims, Sig("k1")) \o <<Sp>>}

JweHeader(alg, enc, iss) == Json(alg, enc, None, iss, None, None, NoNum, NoNum)
GoodJweHeader == JweHeader("dir", "A256GCM", EXPECTED_ISSUER)
JweHeaders ==
    {JweHeader(alg, enc, iss) :
        alg \in {"dir", "RSA-OAEP"}, enc \in {"A256GCM", "A128GCM"}, iss \in Issuers}
    \cup {JweHeader("dir", "A256GCM", None), Text, Junk}
JweToken(h, ek, iv, ct, tag) == <<h>> \o <<Dot>> \o ek \o <<Dot>> \o iv \o <<Dot>> \o ct \o <<Dot>> \o tag
\* A token as its issuer makes it: the payload encrypted under `key`
\* together with the header.
Minted(h, key, plain) == JweToken(h, << >>, <<Iv>>, <<Ct(key, h, plain)>>, <<Tag>>)

\* Five-piece tokens: every payload minted under the supported header with
\* the key "k1"; the good payload and a wrong-issuer payload minted under
\* every header with either key; and every header in front of pieces that
\* are empty, are no base64url, or were minted under another header.
EncryptedTokens ==
    {Minted(GoodJweHeader, "k1", p) : p \in Payloads}
    \cup {Minted(h, k, p) :
            h \in JweHeaders \ {Text, Junk}, k \in {"k1", "k2"},
            p \in {GoodClaims, Json(None, None, None, OtherIssuer, None, None, NoNum, NoNum)}}
    \cup {JweToken(h, ek, iv, ct, tag) :
            h \in JweHeaders, ek \in {<< >>, <<Junk>>}, iv \in {<<Iv>>},
            ct \in {<< >>, <<Ct("k1", GoodJweHeader, GoodClaims)>>}, tag \in {<<Tag>>, <<Junk>>}}
    \cup {<<Sp>> \o Minted(GoodJweHeader, "k1", GoodClaims)}

Tokens == RawTokens \cup SignedTokens \cup EncryptedTokens

Configs ==
    {Config(pk, dk, ve, vi, skew, jm) :
        pk \in {None, "PEM_RSA"}, dk \in {None, "B64_K1", "NOT_B64"},
        ve \in BOOLEAN, vi \in BOOLEAN, skew \in {0, MaxSkew}, jm \in BOOLEAN}

\* The tokens the HTTP server is sent: a well-formed encrypted token, one
\* whose expiry is the largest number, a well-signed token, one whose
\* signature does not verify, a string that is no token, and the empty string.
GoodJwe == Minted(GoodJweHeader, "k1", GoodClaims)
FarFutureJwe ==
    Minted(GoodJweHeader, "k1",
           Json(None, None, None, EXPECTED_ISSUER, EXPECTED_AUDIENCE, "user", U64Max, NowInit))
GoodJwt == JwtToken(JwtHeader("RS256", "kid1"), GoodClaims, Sig("k1"))
HttpTokens ==
    {GoodJwe, FarFutureJwe, GoodJwt,
     JwtToken(JwtHeader("RS256", "kid1"), GoodClaims, Sig("bad")),
     <<Junk, Dot, Junk>>, << >>}

AuthorizationHeaders ==
    {NoHeader, BinaryHeader, Header(<<Word("Basic"), Sp, Junk>>),
     Header(<<Word("bearer"), Sp>> \o GoodJwe)}
    \cup {Header(BearerPrefix \o tok) : tok \in HttpTokens}

ForwardedHeaders == {NoHeader, Header(<<Word("1.1.1.1"), Comma, Sp, Word("2.2.2.2")>>)}

HeaderNames ==
    {"Authorization", "X-Forwarded-For"} \cup {ProxyHeaders[i] : i \in 1..Len(ProxyHeaders)}

Paths ==
    {<<"mcp">>, <<"health">>, <<".well-known", "oauth-protected-resource">>, <<"other">>}

\* A request: its path, its headers, and the SocketAddr among its
\* extensions (None: axum::serve as start_http_server calls it adds none).
Request(path, auth, xff) ==
    [path |-> path,
     headers |-> [h \in HeaderNames |->
                    IF h = "Authorization" THEN auth
                    ELSE IF h = "X-Forwarded-For" THEN xff
                    ELSE NoHeader],
     socket_addr |-> None]

Requests ==
    {Request(<<"mcp">>, auth, NoHeader) : auth \in AuthorizationHeaders}
    \cup {Request(path, auth, NoHeader) :
            path \in Paths, auth \in {NoHeader, Header(BearerPrefix \o GoodJwt)}}
    \cup {Request(<<"mcp">>, NoHeader, xff) : xff \in ForwardedHeaders}

\* The TokenValidationConfig start_http_server builds: the defaults, with
\* the configured audience and decryption key.
ServerTokenConfigs == {Config(None, dk, TRUE, TRUE, MaxSkew, TRUE) : dk \in {None, "B64_K1"}}

\* ------------------------------------------------------------------- state
VARIABLES
    config,         \* the TokenValidationConfig of the process
    cache,          \* the JwksManager's cache slot
    now,            \* the wall clock, in seconds since the epoch
    pc,             \* "idle" before a call of the validator, "done" after it
    call,           \* the validator's call: its token, its result, what it used
    auth_disabled,  \* ServerConfig::auth_disabled
    limiter,        \* the rate limiter's state: a theoretical arrival time per key
    http,           \* the last HTTP exchange: the request and what became of it
    served,         \* the number of HTTP requests served
    lock,           \* the RwLock around the cache slot: its mode and its holders
    jpc,            \* each caller of the JwksManager: where it is in its lookup
    jcall,          \* each caller's lookup: its key identifier, what it saw and got
    fetch_log,      \* the GETs of the JWKS endpoint so far: when, and the answer
    lookups,        \* the number of lookups started
    counted,        \* the requests the rate limiter admitted: identity and time
    hit,            \* the last request the rate limiter was asked about
    extraction,     \* the last request the key extractor was given, and its key
    gate,           \* each request in the rate-limit layer: where it is in its check
    metrics,        \* the counters surrealmcp.total_errors and total_rate_limit_errors
    boot,           \* one call of start_server: its configuration and what it did
    unix,           \* the Unix socket server: its loop, its connections, its counters
    svc,            \* the sessions of SurrealService: their handles and their calls
    net             \* the HTTP server: its listener, its connections, the interrupt

key_set_vars == <<lock, jpc, jcall, fetch_log, lookups>>
limit_vars == <<counted, hit, extraction, gate>>
server_vars == <<boot, unix, svc, net>>
process_vars == <<metrics, server_vars>>
vars ==
    <<config, cache, now, pc, call, auth_disabled, limiter, http, served,
      lock, jpc, jcall, fetch_log, lookups, counted, hit, extraction, gate, metrics,
      boot, unix, svc, net>>

Callers == 1..MaxCallers
Unlocked == [mode |-> "free", holders |-> {}]
NoLookup ==
    [kid |-> None, at |-> 0, before |-> NoCache, n_before |-> 0, ok |-> FALSE,
     err |-> None, log |-> {}, seen |-> NoCache]
NoHit == [key |-> << >>, at |-> 0, admit |-> FALSE]
NoExtraction == [done |-> FALSE, req |-> Request(<< >>, NoHeader, NoHeader), key |-> << >>]
\* The state of the parts a specification leaves alone.
KeySetIdle ==
    /\ lock = Unlocked
    /\ jpc = [p \in Callers |-> "idle"]
    /\ jcall = [p \in Callers |-> NoLookup]
    /\ fetch_log = << >>
    /\ lookups = 0
Clients == 1..MaxClients
NoTurn ==
    [pc |-> "idle", req |-> Request(<< >>, NoHeader, NoHeader), key |-> << >>, t0 |-> 0,
     prev |-> NoNum, retries |-> 0, admit |-> FALSE]
LimitIdle ==
    /\ counted = << >>
    /\ hit = NoHit
    /\ extraction = NoExtraction
    /\ gate = [p \in Clients |-> NoTurn]
NoErrors == [total_errors |-> 0, total_rate_limit_errors |-> 0]
\* A ServerConfig, as far as start_server reads it, and what the process
\* finds when it starts: whether a file is at the socket path, whether it
\* can be removed, whether the address or path can be bound.
ServerConfig(bind_address, socket_path, endpoint) ==
    [bind_address |-> bind_address, socket_path |-> socket_path, endpoint |-> endpoint]
Host(socket_exists, remove_ok, bind_ok) ==
    [socket_exists |-> socket_exists, remove_ok |-> remove_ok, bind_ok |-> bind_ok]
NoBoot ==
    [pc |-> "idle", config |-> ServerConfig(None, None, None), host |-> Host(FALSE, TRUE, TRUE),
     mode |-> None, ok |-> FALSE, err |-> None, effects |-> << >>]
\* A connection of the Unix socket server: where its task is, the value its
\* fetch_sub gave it, and how often it has decremented.
Conns == 1..MaxConns
NoConn == [pc |-> "none", local |-> 0, decs |-> 0]
\* The Unix socket server as its loop starts: the loop, the connection it is
\* on and the value its fetch_add gave it, the two statics, the gauge and
\* the counter the metrics recorder holds, what accept has done so far.
UnixStart ==
    [loop |-> "accepting", cur |-> 0, local |-> 0, ACTIVE_CONNECTIONS |-> 0,
     TOTAL_CONNECTIONS |-> 0, gauge |-> 0, counter |-> 0, accepted |-> 0,
     conns |-> [c \in Conns |-> NoConn]]
NoUnix == [UnixStart EXCEPT !.loop = "off"]
\* The sessions of the process and the calls each one has in flight: the
\* transport and the startup configuration every service is built with;
\* per session whether it serves, which Mutex its handle is behind and what
\* initialize_connection did; per Mutex the handle and the task that holds
\* the guard; the number of handles made so far and what each one is
\* connected to.
Sessions == {"s1", "s2"}
Tasks == {"a", "b"}
NoOwner == << >>
NoInit == [ok |-> TRUE, called |-> FALSE, connected |-> FALSE]
\* A call of a tool: where it is, its arguments, the namespace and database
\* it goes on with, what it returned, what it added to
\* surrealmcp.total_errors, the downstream calls it made, the handle it ran
\* on and the handle it made.
NoTask ==
    [pc |-> "idle", op |-> None, params |-> ConnectParams(None, None, None), ns |-> None,
     db |-> None, res |-> NotConnected, errors |-> 0, sent |-> << >>, on |-> NoHandle,
     new |-> NoHandle]
NoSvc ==
    [transport |-> None, self |-> SurrealService(None, None, None),
     session |-> [s \in Sessions |-> [open |-> FALSE, db |-> None, init |-> NoInit]],
     mutex |-> [m \in Sessions |-> [handle |-> NoHandle, owner |-> NoOwner]],
     task |-> [s \in Sessions |-> [k \in Tasks |-> NoTask]],
     made |-> 0, instance |-> << >>]
\* The HTTP server: where serve is, what became of the signal future, the
\* connections (whether a request is in flight, whether one was when the
\* signal came and what became of that one) and what start_http_server
\* returned.
Peers == {"c1", "c2", "c3"}
NoPeer == [state |-> "none", caught |-> FALSE, outcome |-> "none"]
NoNet == [serve |-> "off", signal |-> "none", conn |-> [c \in Peers |-> NoPeer], result |-> None]
ProcessIdle == metrics = NoErrors /\ boot = NoBoot /\ unix = NoUnix /\ svc = NoSvc /\ net = NoNet

NoCall == [token |-> << >>, res |-> Err(None), log |-> {}]

NoExchange ==
    [req |-> Request(<< >>, NoHeader, NoHeader), trace |-> << >>, validated |-> FALSE,
     res |-> Err(None), key |-> << >>, refused |-> FALSE, errors_before |-> NoErrors,
     tool_failed |-> FALSE,
     resp |-> Response(0, None, None)]

\* ---------------------------------------------------- the validator alone
\* A configuration, a cache slot that is empty or holds the endpoint's key
\* set fetched at start, and one call.
InitValidate ==
    /\ config \in Configs
    /\ cache \in IF config.jwks_manager
                 THEN {NoCache, CachedJwks_new(JwksResponse, NowInit)}
                 ELSE {NoCache}
    /\ now = NowInit
    /\ pc = "idle"
    /\ call = NoCall
    /\ auth_disabled = FALSE
    /\ limiter = {}
    /\ http = NoExchange
    /\ served = 0
    /\ KeySetIdle
    /\ LimitIdle
    /\ ProcessIdle

\* One call of validate_bearer_token.
Validate(token, oc, fetch) ==
    /\ pc = "idle"
    /\ LET r == validate_bearer_token(token, config, now, oc, cache, fetch)
       IN  /\ call' = [token |-> token, res |-> r.res, log |-> r.log]
           /\ cache' = r.cache
    /\ pc' = "done"
    /\ UNCHANGED <<config, now, auth_disabled, limiter, http, served, key_set_vars, limit_vars,
                   process_vars>>

\* The endpoint's possible answers to a call made now: it is asked only by a
\* configuration with a JwksManager whose slot is empty or expired.
EndpointAnswers(cfg, c, t) ==
    IF cfg.jwks_manager /\ ~(c.present /\ ~is_expired(c, t))
    THEN FetchOutcomes
    ELSE {FetchFailed}

NextValidate ==
    /\ pc = "idle"
    /\ \E token \in Tokens, oc \in BOOLEAN, fetch \in EndpointAnswers(config, cache, now) :
        Validate(token, oc, fetch)

SpecValidate == InitValidate /\ [][NextValidate]_vars

\* --------------------------------------------------------- the HTTP server
Init ==
    /\ config \in ServerTokenConfigs
    /\ auth_disabled \in BOOLEAN
    /\ cache = NoCache
    /\ now = NowInit
    /\ limiter = {}
    /\ http = NoExchange
    /\ served = 0
    /\ pc = "idle"
    /\ call = NoCall
    /\ KeySetIdle
    /\ LimitIdle
    /\ ProcessIdle

\* The request reached the MCP service, where a tool call can fail.
in_tool(req, x) == x.trace # << >> /\ x.trace[Len(x.trace)] = "handler" /\ route(req.path) = "mcp"

\* The exchange x of request req takes effect; `failed`: the tool the
\* request calls, if it reaches one, fails.
Exchange(req, x, failed) ==
    /\ http' = [req |-> req, trace |-> x.trace, validated |-> x.validated,
                res |-> x.res, key |-> x.key, refused |-> x.refused,
                errors_before |-> metrics, tool_failed |-> failed /\ in_tool(req, x),
                resp |-> x.resp]
    /\ limiter' = x.lim
    /\ cache' = x.cache
    /\ metrics' = IF x.refused THEN error_handler(metrics)
                  ELSE IF failed /\ in_tool(req, x) THEN tool_error(metrics)
                  ELSE metrics

\* One request, through every layer it reaches.
Serve(req, oc, fetch, failed) ==
    /\ served < MaxRequests
    /\ Exchange(req, serve(req, auth_disabled, config, limiter, now, oc, cache, fetch), failed)
    /\ served' = served + 1
    /\ UNCHANGED <<config, now, pc, call, auth_disabled, key_set_vars, limit_vars, server_vars>>

\* A second passes; the clock stays far below the largest u64.
Tick ==
    /\ now + MaxSkew < U64Max
    /\ now' = now + 1
    /\ UNCHANGED <<config, cache, pc, call, auth_disabled, limiter, http, served, key_set_vars,
                   limit_vars, process_vars>>

Next ==
    \/ /\ served < MaxRequests
       /\ \E req \in Requests, oc \in BOOLEAN, fetch \in EndpointAnswers(config, cache, now),
             failed \in BOOLEAN :
            Serve(req, oc, fetch, failed)
    \/ Tick

Spec == Init /\ [][Next]_vars

\* ------------------------------------------------- the JwksManager alone
\* A key set the endpoint serves after a rotation; it names one key twice.
RotatedResponse ==
    << JwksKey("kid4", "EC", TRUE, "k4"),
       JwksKey("kid1", "RSA", TRUE, "k1b"),
       JwksKey("kid4", "EC", TRUE, "k4b") >>

\* The endpoint's possible answers to a lookup made now.
JwksAnswers(c, t) ==
    IF c.present /\ ~is_expired(c, t)
    THEN {FetchFailed}
    ELSE {FetchFailed, FetchOk(JwksResponse), FetchOk(RotatedResponse)}

LookupKids == {"kid1", "kid4", "kidX"}

InitJwks ==
    /\ config = Config(None, None, TRUE, TRUE, MaxSkew, TRUE)
    /\ cache = NoCache
    /\ now = NowInit
    /\ pc = "idle"
    /\ call = NoCall
    /\ auth_disabled = FALSE
    /\ limiter = {}
    /\ http = NoExchange
    /\ served = 0
    /\ KeySetIdle
    /\ LimitIdle
    /\ ProcessIdle

other_vars ==
    <<config, pc, call, auth_disabled, limiter, http, served, limit_vars, process_vars>>

\* A caller starts get_decoding_key(kid).
Call(p, kid) ==
    /\ jpc[p] = "idle"
    /\ lookups < MaxLookups
    /\ jpc' = [jpc EXCEPT ![p] = "wait"]
    /\ jcall' = [jcall EXCEPT ![p] = [NoLookup EXCEPT !.kid = kid]]
    /\ lookups' = lookups + 1
    /\ UNCHANGED <<cache, now, lock, fetch_log, other_vars>>

\* The caller reads the slot as it would if it did not wait for the lock
\* to be free.
Acquire_at_once(p) ==
    /\ jpc[p] = "wait"
    /\ lock' = [mode |-> "write", holders |-> lock.holders \cup {p}]
    /\ jpc' = [jpc EXCEPT ![p] = "locked"]
    /\ jcall' = [jcall EXCEPT ![p].seen = cache]
    /\ UNCHANGED <<cache, now, fetch_log, lookups, other_vars>>

\* `self.cache.write().await`: the caller gets the lock once it is free,
\* and reads the slot.
Acquire(p) ==
    /\ jpc[p] = "wait"
    /\ lock.mode = "free"
    /\ lock' = [mode |-> "write", holders |-> {p}]
    /\ jpc' = [jpc EXCEPT ![p] = "locked"]
    /\ jcall' = [jcall EXCEPT ![p].seen = cache]
    /\ UNCHANGED <<cache, now, fetch_log, lookups, other_vars>>

\* The outcome r of the lookup takes effect.
Looked(p, fetch, r) ==
    /\ cache' = r.cache
    /\ fetch_log' = IF "fetch" \in r.log
                    THEN Append(fetch_log, [at |-> now, answer |-> fetch])
                    ELSE fetch_log
    /\ jcall' = [jcall EXCEPT ![p] =
                    [kid |-> jcall[p].kid, at |-> now, before |-> cache,
                     n_before |-> Len(fetch_log), ok |-> r.ok, err |-> r.err, log |-> r.log,
                     seen |-> jcall[p].seen]]

\* Under the lock the caller goes by the slot it read, fetches and replaces
\* the key set if it has to, and takes its key from the key set it got; the
\* lock is still held as get_jwks is about to return.
Lookup(p, fetch) ==
    /\ jpc[p] = "locked"
    /\ Looked(p, fetch, get_decoding_key(jcall[p].seen, jcall[p].kid, now, fetch))
    /\ jpc' = [jpc EXCEPT ![p] = "held"]
    /\ UNCHANGED <<now, lock, lookups, other_vars>>

\* get_jwks returns: the guard is dropped, and the caller has its answer.
Release(p) ==
    /\ jpc[p] = "held"
    /\ lock' = Unlocked
    /\ jpc' = [jpc EXCEPT ![p] = "idle"]
    /\ jcall' = [jcall EXCEPT ![p] = NoLookup]
    /\ UNCHANGED <<cache, now, fetch_log, lookups, other_vars>>

\* A second passes, or a whole lifetime of the cache.
Elapse ==
    /\ \/ (now - NowInit) % JWKS_CACHE_DURATION < MaxSeconds /\ now' = now + 1
       \/ (now - NowInit) \div JWKS_CACHE_DURATION < MaxLifetimes
          /\ now' = now + JWKS_CACHE_DURATION
    /\ UNCHANGED <<cache, key_set_vars, other_vars>>

NextJwks ==
    \/ \E p \in Callers, kid \in LookupKids : Call(p, kid)
    \/ \E p \in Callers : Acquire(p)
    \/ \E p \in Callers : \E fetch \in JwksAnswers(jcall[p].seen, now) : Lookup(p, fetch)
    \/ \E p \in Callers : Release(p)
    \/ Elapse

SpecJwks == InitJwks /\ [][NextJwks]_vars

\* ------------------------------------------------- the rate limiter alone
Identities == {<<Word("a")>>, <<Word("b")>>}

InitLimit ==
    /\ config = Config(None, None, TRUE, TRUE, MaxSkew, TRUE)
    /\ cache = NoCache
    /\ now = NowInit
    /\ pc = "idle"
    /\ call = NoCall
    /\ auth_disabled = FALSE
    /\ limiter = {}
    /\ http = NoExchange
    /\ served = 0
    /\ KeySetIdle
    /\ LimitIdle
    /\ ProcessIdle

\* The limiter's verdict g on a request of identity key takes effect.
Governed(key, g) ==
    /\ limiter' = g.lim
    /\ hit' = [key |-> key, at |-> now, admit |-> g.admit]
    /\ counted' = IF g.admit THEN Append(counted, [key |-> key, at |-> now]) ELSE counted

\* The limiter is asked about one request.
Hit(key) ==
    /\ Len(counted) < MaxHits
    /\ Governed(key, check_key(limiter, key, now - NowInit))
    /\ UNCHANGED <<config, cache, now, pc, call, auth_disabled, http, served, key_set_vars,
                   extraction, gate, process_vars>>

\* A second passes.
Wait ==
    /\ now - NowInit < MaxWait
    /\ now' = now + 1
    /\ UNCHANGED <<config, cache, pc, call, auth_disabled, limiter, http, served,
                   key_set_vars, limit_vars, process_vars>>

NextLimit ==
    \/ \E key \in Identities : Hit(key)
    \/ Wait

SpecLimit == InitLimit /\ [][NextLimit]_vars

\* ------------------------------------- concurrent requests in the limiter
GateRequests ==
    {Request(<<"mcp">>, Header(BearerPrefix \o <<Word("tokA")>>), xff) :
        xff \in {NoHeader, Header(<<Word("1.1.1.1")>>)}}
    \cup {Request(<<"mcp">>, Header(BearerPrefix \o <<Word("tokB")>>), NoHeader)}

InitGate ==
    /\ config = Config(None, None, TRUE, TRUE, MaxSkew, TRUE)
    /\ cache = NoCache
    /\ now = NowInit
    /\ pc = "idle"
    /\ call = NoCall
    /\ auth_disabled = TRUE
    /\ limiter = {}
    /\ http = NoExchange
    /\ served = 0
    /\ KeySetIdle
    /\ LimitIdle
    /\ ProcessIdle

gate_rest ==
    <<config, cache, now, pc, call, auth_disabled, http, key_set_vars, hit, extraction,
      server_vars>>

\* A request enters the rate-limit layer: its key is extracted and the
\* clock is read. The requests are numbered as they arrive.
Arrive(p, req) ==
    /\ gate[p].pc = "idle"
    /\ served = p - 1
    /\ gate' = [gate EXCEPT ![p] =
                   [NoTurn EXCEPT !.pc = "check", !.req = req, !.key = extract(req),
                                  !.t0 = now - NowInit]]
    /\ served' = served + 1
    /\ UNCHANGED <<limiter, counted, metrics, gate_rest>>

\* The state of the request's key is read.
Load(p) ==
    /\ gate[p].pc = "check"
    /\ gate' = [gate EXCEPT ![p].pc = "decide", ![p].prev = load(limiter, gate[p].key)]
    /\ UNCHANGED <<limiter, counted, metrics, served, gate_rest>>

\* The verdict d on the state that was read, and the outcome x of the
\* exchange if the request is admitted, take effect.
Settle(p, d, x) ==
    IF ~d.admit
    THEN /\ gate' = [gate EXCEPT ![p].pc = "done", ![p].admit = FALSE]
         /\ metrics' = error_handler(metrics)
         /\ UNCHANGED <<limiter, counted>>
    ELSE IF x.ok
    THEN /\ gate' = [gate EXCEPT ![p].pc = "done", ![p].admit = TRUE]
         /\ limiter' = store(limiter, gate[p].key, x.value)
         /\ counted' = Append(counted, [key |-> gate[p].key, at |-> gate[p].t0])
         /\ UNCHANGED metrics
    ELSE /\ gate' = [gate EXCEPT ![p].prev = x.value, ![p].retries = 1]
         /\ UNCHANGED <<limiter, counted, metrics>>

\* One round of measure_and_replace_one.
Decide(p, spurious) ==
    /\ gate[p].pc = "decide"
    /\ Settle(p, test_and_update(gate[p].prev, gate[p].t0),
              compare_exchange_weak(load(limiter, gate[p].key), gate[p].prev,
                                    test_and_update(gate[p].prev, gate[p].t0).next, spurious))
    /\ UNCHANGED <<served, gate_rest>>

\* A second passes.
Pause ==
    /\ now - NowInit < MaxPause
    /\ now' = now + 1
    /\ UNCHANGED <<config, cache, pc, call, auth_disabled, limiter, http, served,
                   key_set_vars, limit_vars, process_vars>>

NextGate ==
    \/ \E p \in Clients, req \in GateRequests : Arrive(p, req)
    \/ \E p \in Clients : Load(p)
    \/ \E p \in Clients, spurious \in BOOLEAN : Decide(p, spurious)
    \/ Pause

SpecGate == InitGate /\ [][NextGate]_vars

\* ------------------------------------------------------ start_server alone
ServerConfigs ==
    {ServerConfig(b, p, e) :
        b \in {None, "127.0.0.1:8080"}, p \in {None, "/tmp/mcp.sock"}, e \in {None, "ws://db"}}
Hosts == {Host(x, r, b) : x \in BOOLEAN, r \in BOOLEAN, b \in BOOLEAN}

\* The parts of the state the servers below leave alone.
request_vars ==
    <<config, cache, now, pc, call, auth_disabled, limiter, http, served, key_set_vars,
      limit_vars, metrics>>
RequestIdle ==
    /\ config = Config(None, None, TRUE, TRUE, MaxSkew, TRUE)
    /\ cache = NoCache
    /\ now = NowInit
    /\ pc = "idle"
    /\ call = NoCall
    /\ auth_disabled = FALSE
    /\ limiter = {}
    /\ http = NoExchange
    /\ served = 0
    /\ KeySetIdle
    /\ LimitIdle
    /\ metrics = NoErrors

InitStart ==
    /\ RequestIdle
    /\ boot \in {[NoBoot EXCEPT !.config = c, !.host = h] : c \in ServerConfigs, h \in Hosts}
    /\ unix = NoUnix
    /\ svc = NoSvc
    /\ net = NoNet

\* The outcome r of start_server takes effect.
Booted(r) ==
    boot' = [boot EXCEPT !.pc = "done", !.mode = r.mode, !.ok = r.ok, !.err = r.err,
                         !.effects = r.effects]

\* One call of start_server, up to the point where the server it chose
\* serves or has failed.
Start ==
    /\ boot.pc = "idle"
    /\ Booted(start_server(boot.config, boot.host))
    /\ UNCHANGED <<request_vars, unix, svc, net>>

NextStart == Start

SpecStart == InitStart /\ [][NextStart]_vars

\* ------------------------------------------------- the Unix socket server
InitUnix ==
    /\ RequestIdle
    /\ boot = NoBoot
    /\ unix = UnixStart
    /\ svc = NoSvc
    /\ net = NoNet

unix_rest == <<request_vars, boot, svc, net>>
Task(c) == unix.conns[c]
\* The process is still there.
Alive == unix.loop \in {"accepting", "counting", "publishing", "returned"}

\* listener.accept() returns: an error ends start_unix_server through `?`;
\* a connection is counted as active.
Accept(ok) ==
    /\ unix.loop = "accepting"
    /\ unix.accepted < MaxConns
    /\ unix' = IF ok
               THEN [unix EXCEPT !.loop = "counting", !.cur = unix.accepted + 1,
                                 !.accepted = unix.accepted + 1,
                                 !.ACTIVE_CONNECTIONS = fetch_add(unix.ACTIVE_CONNECTIONS),
                                 !.local = fetch_add(unix.ACTIVE_CONNECTIONS)]
               ELSE [unix EXCEPT !.loop = "returned"]
    /\ UNCHANGED unix_rest

\* TOTAL_CONNECTIONS.fetch_add
CountTotal ==
    /\ unix.loop = "counting"
    /\ unix' = [unix EXCEPT !.loop = "publishing",
                            !.TOTAL_CONNECTIONS = fetch_add(unix.TOTAL_CONNECTIONS)]
    /\ UNCHANGED unix_rest

\* The gauge is set, the counter incremented, the task spawned.
Spawn ==
    /\ unix.loop = "publishing"
    /\ unix' = [unix EXCEPT !.loop = "accepting", !.gauge = unix.local,
                            !.counter = unix.counter + 1,
                            !.conns[unix.cur].pc = "spawned"]
    /\ UNCHANGED unix_rest

\* The task builds its service and initializes its connection; an error of
\* initialize_connection is logged, a panic ends the task.
Initialize(c, outcome) ==
    /\ Alive
    /\ Task(c).pc = "spawned"
    /\ unix' = [unix EXCEPT !.conns[c].pc = IF outcome = "panic" THEN "panicked"
                                            ELSE "handshake"]
    /\ UNCHANGED unix_rest

\* rmcp::serve_server returns Ok or Err, or panics.
Handshake(c, outcome) ==
    /\ Alive
    /\ Task(c).pc = "handshake"
    /\ unix' = [unix EXCEPT !.conns[c].pc = IF outcome = "ok" THEN "serving"
                                            ELSE IF outcome = "err" THEN "failing"
                                            ELSE "panicked"]
    /\ UNCHANGED unix_rest

\* server.waiting() returns: the client is gone, or the service has ended.
Close(c) ==
    /\ Alive
    /\ Task(c).pc = "serving"
    /\ unix' = [unix EXCEPT !.conns[c].pc = "closing"]
    /\ UNCHANGED unix_rest

\* ACTIVE_CONNECTIONS.fetch_sub in either arm of the match.
Decrement(c) ==
    /\ Alive
    /\ Task(c).pc \in {"closing", "failing"}
    /\ unix' = [unix EXCEPT !.ACTIVE_CONNECTIONS = fetch_sub(unix.ACTIVE_CONNECTIONS),
                            !.conns[c].local = fetch_sub(unix.ACTIVE_CONNECTIONS),
                            !.conns[c].decs = Task(c).decs + 1,
                            !.conns[c].pc = "reporting"]
    /\ UNCHANGED unix_rest

\* The gauge is set to the value the task's fetch_sub gave it.
Report(c) ==
    /\ Alive
    /\ Task(c).pc = "reporting"
    /\ unix' = [unix EXCEPT !.gauge = Task(c).local, !.conns[c].pc = "finished"]
    /\ UNCHANGED unix_rest

\* start_server has returned the error of accept: the process ends, and the
\* runtime drops the tasks that are still running.
Exit ==
    /\ unix.loop = "returned"
    /\ unix' = [unix EXCEPT !.loop = "exited",
                            !.conns = [c \in Conns |->
                                IF Task(c).pc \in {"none", "finished", "panicked"}
                                THEN Task(c)
                                ELSE [Task(c) EXCEPT !.pc = "cancelled"]]]
    /\ UNCHANGED unix_rest

NextUnix ==
    \/ \E ok \in BOOLEAN : Accept(ok)
    \/ CountTotal
    \/ Spawn
    \/ \E c \in Conns, outcome \in {"ok", "panic"} : Initialize(c, outcome)
    \/ \E c \in Conns, outcome \in {"ok", "err", "panic"} : Handshake(c, outcome)
    \/ \E c \in Conns : Close(c)
    \/ \E c \in Conns : Decrement(c)
    \/ \E c \in Conns : Report(c)
    \/ Exit

SpecUnix == InitUnix /\ [][NextUnix]_vars

\* ------------------------------------------- the sessions of SurrealService
Transports == {"stdio", "unix", "http"}
Services ==
    {SurrealService(e, n, d) : e \in {None, "memory"}, n \in {None, "prod"}, d \in {None, "main"}}
session_rest == <<request_vars, boot, unix, net>>
ToolCall(s, k) == svc.task[s][k]
MutexOf(s) == svc.mutex[svc.session[s].db]
Callable(s, k) == svc.session[s].open /\ ToolCall(s, k).pc \in {"idle", "done"}
\* The service sv starts to serve as session s; r is what became of its
\* initialize_connection.
Opened(s, sv, r) ==
    svc' = [svc EXCEPT !.session[s] = [open |-> TRUE, db |-> sv.db, init |-> r],
                       !.mutex[sv.db].handle = IF r.connected THEN svc.made + 1 ELSE @,
                       !.made = IF r.connected THEN @ + 1 ELSE @,
                       !.instance =
                           IF r.connected
                           THEN Append(@, create_client_connection(
                                              sv.self.endpoint, sv.self.namespace,
                                              sv.self.database))
                           ELSE @]

\* A session begins: with_config, then initialize_connection where the
\* transport calls it, whose error is logged and nothing more.  The stdio
\* server has the one session.
Open(s, outcome) ==
    /\ svc.transport # None
    /\ ~svc.session[s].open
    /\ svc.transport = "stdio" => \A q \in Sessions : ~svc.session[q].open
    /\ initializes(svc.transport) /\ svc.self.endpoint # None => svc.made < MaxHandles
    /\ Opened(s, with_config(s, svc.self),
              IF initializes(svc.transport) THEN initialize_connection(svc.self, outcome)
              ELSE NoInit)
    /\ UNCHANGED session_rest

\* The tool op of session s starts as call k and runs to its first await,
\* r being what its checks gave.
Begin(s, k, op, params, r, pc_next, sent) ==
    svc' = [svc EXCEPT !.task[s][k] =
                [pc |-> IF r.rejected THEN "done" ELSE pc_next, op |-> op, params |-> params,
                 ns |-> r.ns, db |-> r.db, res |-> r.res, errors |-> r.errors,
                 sent |-> IF r.rejected THEN << >> ELSE sent, on |-> NoHandle,
                 new |-> NoHandle]]

ConnectEndpoint(s, k, params) ==
    /\ Callable(s, k)
    /\ Begin(s, k, "connect_endpoint", params, connect_endpoint(svc.self, params), "creating",
             <<"create_client_connection">>)
    /\ UNCHANGED session_rest

UseNamespace(s, k, namespace) ==
    /\ Callable(s, k)
    /\ Begin(s, k, "use_namespace", ConnectParams(None, namespace, None),
             use_namespace(svc.self, namespace), "locking", << >>)
    /\ UNCHANGED session_rest

UseDatabase(s, k, database) ==
    /\ Callable(s, k)
    /\ Begin(s, k, "use_database", ConnectParams(None, None, database),
             use_database(svc.self, database), "locking", << >>)
    /\ UNCHANGED session_rest

\* query_internal, which every query tool ends in.
Query(s, k) ==
    /\ Callable(s, k)
    /\ Begin(s, k, "query", ConnectParams(None, None, None), proceeds(None, None), "locking",
             << >>)
    /\ UNCHANGED session_rest

DisconnectEndpoint(s, k) ==
    /\ Callable(s, k)
    /\ Begin(s, k, "disconnect_endpoint", ConnectParams(None, None, None),
             proceeds(None, None), "locking", << >>)
    /\ UNCHANGED session_rest

\* The return of create_client_connection as it would be if a failed
\* attempt dropped the handle the session has.
Created_dropping(s, k, ok) ==
    /\ ToolCall(s, k).pc = "creating"
    /\ svc.made < MaxHandles
    /\ svc' = IF ok
              THEN [svc EXCEPT !.task[s][k].pc = "locking", !.task[s][k].new = svc.made + 1,
                               !.made = @ + 1,
                               !.instance =
                                   Append(@, create_client_connection(
                                                 ToolCall(s, k).params.endpoint,
                                                 ToolCall(s, k).ns, ToolCall(s, k).db))]
              ELSE [svc EXCEPT !.task[s][k].pc = "done",
                               !.task[s][k].res =
                                   internal_error(<<"Failed to connect to endpoint",
                                                    ToolCall(s, k).params.endpoint>>),
                               !.task[s][k].errors = 1,
                               !.mutex[svc.session[s].db].handle = NoHandle]
    /\ UNCHANGED session_rest

\* create_client_connection returns to connect_endpoint.
Created(s, k, ok) ==
    /\ ToolCall(s, k).pc = "creating"
    /\ svc.made < MaxHandles
    /\ svc' = IF ok
              THEN [svc EXCEPT !.task[s][k].pc = "locking", !.task[s][k].new = svc.made + 1,
                               !.made = @ + 1,
                               !.instance =
                                   Append(@, create_client_connection(
                                                 ToolCall(s, k).params.endpoint,
                                                 ToolCall(s, k).ns, ToolCall(s, k).db))]
              ELSE [svc EXCEPT !.task[s][k].pc = "done",
                               !.task[s][k].res =
                                   internal_error(<<"Failed to connect to endpoint",
                                                    ToolCall(s, k).params.endpoint>>),
                               !.task[s][k].errors = 1]
    /\ UNCHANGED session_rest

\* The call has the guard and g is its match on the handle: it returns at
\* once or keeps the guard while it awaits the engine.
Guarded(s, k, m, g) ==
    svc' = IF g.some
           THEN [svc EXCEPT !.mutex[m].owner = <<s, k>>, !.task[s][k].pc = "running",
                            !.task[s][k].on = svc.mutex[m].handle,
                            !.task[s][k].sent = Append(@, Engine[ToolCall(s, k).op])]
           ELSE [svc EXCEPT !.task[s][k].pc = "done", !.task[s][k].res = g.res,
                            !.task[s][k].errors = g.errors]

\* disconnect_endpoint has the guard and d is what it does with it.
Dropped(s, k, d) ==
    svc' = [svc EXCEPT !.mutex[svc.session[s].db].handle = d.db, !.task[s][k].pc = "done",
                       !.task[s][k].res = d.res, !.task[s][k].errors = d.errors,
                       !.instance = drop(@, MutexOf(s).handle)]

\* self.db.lock().await returns.  connect_endpoint stores its handle and
\* disconnect_endpoint stores None, and both return; the other tools match
\* on the handle.
Lock(s, k) ==
    /\ ToolCall(s, k).pc = "locking"
    /\ MutexOf(s).owner = NoOwner
    /\ IF ToolCall(s, k).op = "connect_endpoint"
       THEN svc' = [svc EXCEPT !.mutex[svc.session[s].db].handle = ToolCall(s, k).new,
                               !.task[s][k].pc = "done",
                               !.task[s][k].res =
                                   success(<<"Successfully connected to endpoint",
                                             ToolCall(s, k).params.endpoint>>),
                               !.instance = drop(@, MutexOf(s).handle)]
       ELSE IF ToolCall(s, k).op = "disconnect_endpoint"
       THEN Dropped(s, k, disconnect_endpoint(MutexOf(s).handle))
       ELSE Guarded(s, k, svc.session[s].db, match_db_guard(MutexOf(s).handle))
    /\ UNCHANGED session_rest

\* The engine answers and the tool returns, which drops the guard.
Answer(s, k, ok) ==
    /\ ToolCall(s, k).pc = "running"
    /\ svc' = [svc EXCEPT !.mutex[svc.session[s].db].owner = NoOwner,
                          !.task[s][k].pc = "done",
                          !.task[s][k].res =
                              answered(ToolCall(s, k).op,
                                       or_else(ToolCall(s, k).ns, ToolCall(s, k).db), ok),
                          !.task[s][k].errors = answer_errors(ToolCall(s, k).op, ok),
                          !.instance[ToolCall(s, k).on] =
                              IF ok
                              THEN use(@, ToolCall(s, k).op,
                                       or_else(ToolCall(s, k).ns, ToolCall(s, k).db))
                              ELSE @]
    /\ UNCHANGED session_rest

\* One session and one call at a time, under every startup configuration.
InitSession ==
    /\ RequestIdle
    /\ boot = NoBoot
    /\ unix = NoUnix
    /\ net = NoNet
    /\ svc \in {[NoSvc EXCEPT !.transport = t, !.self = c] : t \in Transports, c \in Services}

Endpoints == {"memory", "ws://db"}
Namespaces == {None, "prod", "dev"}
Databases == {None, "main", "test"}
NextSession ==
    \/ \E outcome \in {"ok", "err"} : Open("s1", outcome)
    \/ \E e \in Endpoints, n \in Namespaces, d \in Databases :
           ConnectEndpoint("s1", "a", ConnectParams(e, n, d))
    \/ \E n \in Namespaces \ {None} : UseNamespace("s1", "a", n)
    \/ \E d \in Databases \ {None} : UseDatabase("s1", "a", d)
    \/ Query("s1", "a")
    \/ DisconnectEndpoint("s1", "a")
    \/ \E ok \in BOOLEAN : Created("s1", "a", ok)
    \/ Lock("s1", "a")
    \/ \E ok \in BOOLEAN : Answer("s1", "a", ok)

SpecSession == InitSession /\ [][NextSession]_vars

\* Two sessions, the first with two calls in flight and the second with
\* one, and no startup configuration.
InitShared ==
    /\ RequestIdle
    /\ boot = NoBoot
    /\ unix = NoUnix
    /\ net = NoNet
    /\ svc = [NoSvc EXCEPT !.transport = "http"]

Calls == {<<"s1", "a">>, <<"s1", "b">>, <<"s2", "a">>}
NextShared ==
    \/ \E s \in Sessions : Open(s, "ok")
    \/ \E c \in Calls : ConnectEndpoint(c[1], c[2], ConnectParams("memory", None, None))
    \/ \E c \in Calls : UseNamespace(c[1], c[2], "prod")
    \/ \E c \in Calls : Query(c[1], c[2])
    \/ \E c \in Calls : DisconnectEndpoint(c[1], c[2])
    \/ \E c \in Calls, ok \in BOOLEAN : Created(c[1], c[2], ok)
    \/ \E c \in Calls : Lock(c[1], c[2])
    \/ \E c \in Calls, ok \in BOOLEAN : Answer(c[1], c[2], ok)

SpecShared == InitShared /\ [][NextShared]_vars

\* ------------------------------------------------- the HTTP server's serve
\* axum::serve(listener, router).with_graceful_shutdown(signal): the accept
\* loop selects between listener.accept() and the signal, each connection
\* task between its connection and the signal, and serve returns when the
\* loop has ended and every connection task has.
InitNet ==
    /\ RequestIdle
    /\ boot = NoBoot
    /\ unix = NoUnix
    /\ svc = NoSvc
    /\ net = [NoNet EXCEPT !.serve = "serving"]

net_rest == <<request_vars, boot, unix, svc>>
Peer(c) == net.conn[c]

\* The loop takes the accept branch: a connection task is spawned.
AcceptPeer(c) ==
    /\ net.serve = "serving"
    /\ Peer(c).state = "none"
    /\ net' = [net EXCEPT !.conn[c].state = "idle"]
    /\ UNCHANGED net_rest

\* The connection reads a request and the router serves it.
BeginRequest(c) ==
    /\ net.serve \in {"serving", "draining"}
    /\ Peer(c).state = "idle"
    /\ net' = [net EXCEPT !.conn[c].state = "busy"]
    /\ UNCHANGED net_rest

\* The response is written: the connection goes on, or ends if it was told
\* to shut down.
CompleteRequest(c) ==
    /\ net.serve \in {"serving", "draining"}
    /\ Peer(c).state \in {"busy", "last"}
    /\ net' = [net EXCEPT !.conn[c].state = IF Peer(c).state = "last" THEN "closed" ELSE "idle",
                          !.conn[c].outcome = IF Peer(c).caught THEN "completed" ELSE @]
    /\ UNCHANGED net_rest

\* The peer closes a connection that has no request in flight.
Hangup(c) ==
    /\ net.serve \in {"serving", "draining"}
    /\ Peer(c).state = "idle"
    /\ net' = [net EXCEPT !.conn[c].state = "closed"]
    /\ UNCHANGED net_rest

\* tokio::signal::ctrl_c() resolves: with the interrupt, or with an error
\* on which expect panics, and the panic unwinds the signal task or aborts
\* the process as the build has it.  The requests then in flight are marked.
Interrupt(outcome) ==
    /\ net.serve = "serving"
    /\ net.signal = "none"
    /\ net' = [net EXCEPT !.signal = signal_after(outcome),
                          !.serve = IF outcome = "abort" THEN "aborted" ELSE @,
                          !.conn = [c \in Peers |->
                                       [Peer(c) EXCEPT !.caught = Peer(c).state = "busy"]]]
    /\ UNCHANGED net_rest

\* The loop takes the signal branch and breaks; the listener is dropped.
StopAccepting ==
    /\ net.serve = "serving"
    /\ closed(net.signal)
    /\ net' = [net EXCEPT !.serve = "draining"]
    /\ UNCHANGED net_rest

\* A connection task takes the signal branch and calls graceful_shutdown:
\* a connection without a request ends, one with a request ends after it.
GracefulShutdown(c) ==
    /\ net.serve \in {"serving", "draining"}
    /\ closed(net.signal)
    /\ Peer(c).state \in {"idle", "busy"}
    /\ net' = [net EXCEPT !.conn[c].state = IF Peer(c).state = "idle" THEN "closed" ELSE "last"]
    /\ UNCHANGED net_rest

\* Every connection task has ended: serve returns and start_http_server
\* returns Ok(()).
Returns ==
    /\ net.serve = "draining"
    /\ drained(net.conn)
    /\ net' = [net EXCEPT !.serve = "returned", !.result = "Ok"]
    /\ UNCHANGED net_rest

NextNet ==
    \/ \E c \in Peers : AcceptPeer(c)
    \/ \E c \in Peers : BeginRequest(c)
    \/ \E c \in Peers : CompleteRequest(c)
    \/ \E c \in Peers : Hangup(c)
    \/ \E outcome \in {"interrupt", "unwind", "abort"} : Interrupt(outcome)
    \/ StopAccepting
    \/ \E c \in Peers : GracefulShutdown(c)
    \/ Returns

\* The runtime polls a task that is ready: the loop and the connection
\* tasks see the signal, and serve sees the last connection task end.  That
\* a request completes is the handler's matter and is not assumed.
SpecNet ==
    /\ InitNet
    /\ [][NextNet]_vars
    /\ WF_vars(StopAccepting)
    /\ \A c \in Peers : WF_vars(GracefulShutdown(c))
    /\ WF_vars(Returns)

\* ------------------------------------------------ the key extractor alone
\* A request with these headers and this SocketAddr among its extensions.
RequestWith(auth, xff, real_ip, remote_addr, addr) ==
    [path |-> <<"mcp">>,
     headers |-> [h \in HeaderNames |->
                    IF h = "Authorization" THEN auth
                    ELSE IF h = "X-Forwarded-For" THEN xff
                    ELSE IF h = "X-Real-IP" THEN real_ip
                    ELSE IF h = "X-Remote-Addr" THEN remote_addr
                    ELSE NoHeader],
     socket_addr |-> addr]

ExtractRequests ==
    {RequestWith(auth, xff, real_ip, remote_addr, addr) :
        auth \in {NoHeader, BinaryHeader, Header(<<Word("Basic"), Sp, Junk>>),
                  Header(BearerPrefix), Header(BearerPrefix \o <<Sp>>),
                  Header(BearerPrefix \o <<Word("tok")>>),
                  Header(BearerPrefix \o <<Sp, Word("tok")>>)},
        xff \in {NoHeader, BinaryHeader, Header(<< >>),
                 Header(<<Word("1.1.1.1"), Comma, Sp, Word("2.2.2.2")>>)},
        real_ip \in {NoHeader, BinaryHeader, Header(<<Word("3.3.3.3")>>)},
        remote_addr \in {NoHeader, Header(<<Word("4.4.4.4")>>)},
        addr \in {None, "9.9.9.9"}}

InitExtract ==
    /\ config = Config(None, None, TRUE, TRUE, MaxSkew, TRUE)
    /\ cache = NoCache
    /\ now = NowInit
    /\ pc = "idle"
    /\ call = NoCall
    /\ auth_disabled = FALSE
    /\ limiter = {}
    /\ http = NoExchange
    /\ served = 0
    /\ KeySetIdle
    /\ LimitIdle
    /\ ProcessIdle

\* One call of RobustIpKeyExtractor::extract.
Extract(req) ==
    /\ ~extraction.done
    /\ extraction' = [done |-> TRUE, req |-> req, key |-> extract(req)]
    /\ UNCHANGED <<config, cache, now, pc, call, auth_disabled, limiter, http, served,
                   key_set_vars, counted, hit, gate, process_vars>>

NextExtract == \E req \in ExtractRequests : Extract(req)

SpecExtract == InitExtract /\ [][NextExtract]_vars

\* ================================================================ claims
\* What a call of the validator was given, read off the token itself.
Called == pc = "done"
Trimmed == trim(call.token)
Segments(tok) == Cardinality({i \in 1..Len(tok) : tok[i] = Dot}) + 1
Pieces == split(Trimmed)
SignedCall == Called /\ Trimmed # << >> /\ Segments(Trimmed) = 3
EncryptedCall == Called /\ Trimmed # << >> /\ Segments(Trimmed) = 5
Skew == config.clock_skew_seconds

\* The claims a signed token carries in its second piece.
SignedClaims ==
    IF SignedCall /\ Len(Pieces[2]) = 1 /\ Pieces[2][1].t = "json" THEN Pieces[2][1] ELSE Junk
HasSignedClaims == SignedClaims.t = "json" /\ SignedClaims.iss # None

\* The key material and family the configuration verifies signatures with.
TrustedMaterial ==
    IF config.jwks_manager THEN "k1"
    ELSE IF config.jwt_public_key # None THEN "kpem" ELSE "dummy-key"
TrustedFamily ==
    IF config.jwks_manager \/ config.jwt_public_key # None THEN "RSA" ELSE "HMAC"
\* The key was found and the token's third piece is a signature made with it
\* under an algorithm of its family.
Verified ==
    /\ SignedCall
    /\ "sig" \in call.log
    /\ Len(Pieces[1]) = 1
    /\ (Pieces[1][1].alg \in {"RS256", "RS384", "RS512"}) = (TrustedFamily = "RSA")
    /\ (Pieces[1][1].alg = "HS256") = (TrustedFamily = "HMAC")
    /\ Pieces[3] = <<Sig(TrustedMaterial)>>

\* The header of an encrypted token, when it is one the validator supports.
JweHead == IF EncryptedCall /\ Len(Pieces[1]) = 1 THEN Pieces[1][1] ELSE Junk
SupportedHead ==
    JweHead.t = "json" /\ JweHead.alg = "dir" /\ JweHead.enc = "A256GCM" /\ JweHead.iss # None
\* The configured decryption key decodes, and the token was encrypted with it
\* under the header it carries.
KeyDecodes == config.jwe_decryption_key \in {"B64_K1", "B64_K2"}
KeyBytes == IF config.jwe_decryption_key = "B64_K1" THEN "k1" ELSE "k2"
Sealed ==
    /\ EncryptedCall /\ SupportedHead /\ KeyDecodes
    /\ Pieces[2] = << >> /\ Pieces[3] = <<Iv>> /\ Pieces[5] = <<Tag>>
    /\ Len(Pieces[4]) = 1
    /\ Pieces[4][1].t \in {"ct", "cttext"}
    /\ Pieces[4][1].key = KeyBytes
    /\ Pieces[4][1].alg = JweHead.alg /\ Pieces[4][1].enc = JweHead.enc
    /\ Pieces[4][1].kid = JweHead.iss
\* The claims an encrypted token carries in its ciphertext.
SealedClaims == IF Sealed /\ Pieces[4][1].t = "ct" THEN Pieces[4][1] ELSE Junk
HasSealedClaims == SealedClaims.t = "ct" /\ SealedClaims.iss # None

\* An HTTP exchange took place with authentication enabled.
Exchanged == http.trace # << >>
Protected == Exchanged /\ ~auth_disabled /\ ~auth_exempt(http.req.path)
Downstream == \E i \in 1..Len(http.trace) : http.trace[i] = "limit"
Unauthorized == Response(401, WWW_AUTHENTICATE_VALUE, None)

\* C1: on a path that is neither /health nor under /.well-known/, the
\* authentication layer calls the next layer exactly when the request carries
\* a Bearer token that validates, and every other request is answered 401
\* with the WWW-Authenticate header and does not reach the next layer.
C1_BearerOr401 ==
    Protected =>
        IF http.validated /\ http.res.ok
        THEN Downstream
        ELSE ~Downstream /\ http.resp = Unauthorized

\* C2: the validator classifies by the trimmed token alone: empty gives
\* EmptyToken, three pieces the signed path, five the encrypted path, any
\* other count MalformedToken, and on EmptyToken and MalformedToken neither
\* the key set nor a key has been used.
C2_TotalClassification ==
    Called =>
        /\ (Trimmed = << >>) = (call.res.err = "EmptyToken")
        /\ (Trimmed # << >> /\ Segments(Trimmed) = 3) = ("jwt" \in call.log)
        /\ (Trimmed # << >> /\ Segments(Trimmed) = 5) = ("jwe" \in call.log)
        /\ (Trimmed # << >> /\ Segments(Trimmed) \notin {3, 5}) = (call.res.err = "MalformedToken")
        /\ call.res.err \in {"EmptyToken", "MalformedToken"} => call.log = {} /\ ~call.res.ok

\* A token of whitespace only was classified as empty.
C2_Witness ==
    Called /\ call.token # << >> /\ call.res.err = "EmptyToken"

\* C3: with authentication enabled, every request to the primary endpoint
\* meets the rate limiter before the token validator, so that a request
\* with no token or a bad token is counted against a bucket.
C3_GateBeforeValidation ==
    (Exchanged /\ ~auth_disabled /\ route(http.req.path) = "mcp") =>
        Downstream /\ http.trace[1] = "limit"

\* C4: a request to /health or to /.well-known/oauth-protected-resource is
\* never token-validated and never meets the rate limiter.
C4_PrimaryEndpointOnly ==
    (Exchanged /\ route(http.req.path) \in {"health", "well_known"}) =>
        ~http.validated /\ ~Downstream

\* C5 as the specification states it: a signed token whose issuer differs
\* from the configured one fails with IssuerMismatch whatever its signature.
C5_IssuerMismatchRegardless ==
    (SignedCall /\ HasSignedClaims /\ SignedClaims.iss # config.expected_issuer) =>
        call.res.err = "IssuerMismatch"

\* C5: a signed token whose issuer differs from the configured one is always
\* rejected, and the rejection is IssuerMismatch exactly when the key was
\* found, the signature verifies, exp, sub and aud are present, and exp is
\* not more than the skew in the past.
C5_IssuerAfterSignature ==
    (SignedCall /\ HasSignedClaims /\ SignedClaims.iss # config.expected_issuer) =>
        /\ ~call.res.ok
        /\ (call.res.err = "IssuerMismatch") =
              (/\ Verified
               /\ SignedClaims.exp # NoNum /\ SignedClaims.sub # None /\ SignedClaims.aud # None
               /\ SignedClaims.exp >= now - Skew)

\* A wrong-issuer token whose signature does not verify was rejected for
\* its signature.
C5_Witness ==
    /\ SignedCall /\ HasSignedClaims /\ SignedClaims.iss # config.expected_issuer
    /\ Pieces[3] = <<Sig("bad")>>
    /\ call.res.err = "SignatureInvalid"

\* C6: a signed token is accepted only if its signature verifies and its
\* audience is present and equal to the configured audience, whatever the
\* expiry and freshness toggles.
C6_SignedNeedsAudience ==
    (SignedCall /\ call.res.ok) =>
        /\ Verified
        /\ HasSignedClaims
        /\ SignedClaims.aud = config.expected_audience
        /\ call.res.claims.aud = config.expected_audience

\* A signed token was accepted with both toggles off.
C6_Witness ==
    /\ SignedCall /\ call.res.ok
    /\ ~config.validate_expiration /\ ~config.validate_issued_at

\* C7: a token that comes to the expiry check (a verified signed token with
\* the right issuer and audience, or a decrypted token with the right issuer
\* under a configuration that validates expiry) fails with Expired when
\* exp < now - skew, and passes the expiry check when exp >= now - skew.
C7_ExpiryBoundary ==
    /\ (/\ Verified /\ HasSignedClaims
        /\ SignedClaims.iss = config.expected_issuer
        /\ SignedClaims.aud = config.expected_audience
        /\ SignedClaims.sub # None /\ SignedClaims.exp # NoNum) =>
            IF SignedClaims.exp < now - Skew
            THEN call.res.err = "Expired"
            ELSE call.res.err \notin {"Expired", "Panic"}
    /\ (/\ HasSealedClaims /\ config.validate_expiration
        /\ SealedClaims.iss = config.expected_issuer
        /\ SealedClaims.exp # NoNum) =>
            IF SealedClaims.exp < now - Skew
            THEN call.res.err = "Expired"
            ELSE call.res.err \notin {"Expired", "Panic"}

\* C8: with freshness validation on, a token whose iat > now + skew is never
\* accepted on the signed path or on the encrypted path with a key, and is
\* rejected as issued in the future once it comes to the check; a token
\* whose iat <= now + skew, or that has no iat, is not rejected as issued in
\* the future, and is accepted when it came to the check.
C8_Freshness ==
    /\ (config.validate_issued_at /\ HasSignedClaims /\ SignedClaims.iat > now + Skew) =>
            ~call.res.ok
    /\ (config.validate_issued_at /\ HasSealedClaims /\ SealedClaims.iat > now + Skew) =>
            ~call.res.ok
    /\ (/\ config.validate_issued_at
        /\ Verified /\ HasSignedClaims
        /\ SignedClaims.iss = config.expected_issuer
        /\ SignedClaims.aud = config.expected_audience
        /\ SignedClaims.sub # None /\ SignedClaims.exp # NoNum
        /\ SignedClaims.exp >= now - Skew /\ SignedClaims.exp + Skew <= U64Max) =>
            IF SignedClaims.iat > now + Skew
            THEN call.res.err = "IssuedInFuture"
            ELSE call.res.ok
    /\ (/\ config.validate_issued_at
        /\ HasSealedClaims
        /\ SealedClaims.iss = config.expected_issuer
        /\ \/ ~config.validate_expiration
           \/ SealedClaims.exp = NoNum
           \/ SealedClaims.exp >= now - Skew /\ SealedClaims.exp + Skew <= U64Max) =>
            IF SealedClaims.iat > now + Skew
            THEN call.res.err = "IssuedInFuture"
            ELSE call.res.ok
    /\ (Called /\ call.res.err = "IssuedInFuture") =>
            /\ config.validate_issued_at
            /\ \/ HasSignedClaims /\ SignedClaims.iat > now + Skew
               \/ HasSealedClaims /\ SealedClaims.iat > now + Skew

\* A decrypted token issued in the future was rejected for it.
C8_Witness ==
    /\ HasSealedClaims /\ config.validate_issued_at
    /\ SealedClaims.iat > now + Skew
    /\ call.res.err = "IssuedInFuture"

\* C9: with no decryption key, a five-piece token whose header has alg dir
\* and enc A256GCM is accepted iff its header issuer is the configured
\* issuer, with claims that hold the issuer only, whatever its other pieces.
C9_HeaderOnly ==
    (EncryptedCall /\ SupportedHead /\ config.jwe_decryption_key = None) =>
        /\ call.res.ok = (JweHead.iss = config.expected_issuer)
        /\ ~call.res.ok => call.res.err = "IssuerMismatch"
        /\ call.res.ok =>
              call.res.claims =
                  [iss |-> JweHead.iss, aud |-> None, exp |-> NoNum, iat |-> NoNum, sub |-> None]
        /\ "jwe_key" \notin call.log

\* A token whose last piece is no base64url was accepted on its header.
C9_Witness ==
    /\ EncryptedCall /\ SupportedHead /\ config.jwe_decryption_key = None
    /\ Pieces[5] = <<Junk>>
    /\ call.res.ok

\* C10: with a decryption key configured, a supported five-piece token is
\* never validated on its header: a key that does not decode, a token that
\* does not decrypt and a plaintext that is no claim set each fail, and an
\* accepted token carries the claims of its plaintext.
C10_NoHeaderFallback ==
    (EncryptedCall /\ SupportedHead /\ config.jwe_decryption_key # None) =>
        /\ "jwe_key" \in call.log
        /\ ~KeyDecodes => call.res.err = "DecodeKeyFailed"
        /\ (KeyDecodes /\ ~Sealed) => call.res.err = "DecryptFailed"
        /\ (Sealed /\ ~HasSealedClaims) => call.res.err = "ParseClaimsFailed"
        /\ call.res.ok =>
              /\ HasSealedClaims
              /\ call.res.claims =
                    [iss |-> SealedClaims.iss, aud |-> SealedClaims.aud, exp |-> SealedClaims.exp,
                     iat |-> SealedClaims.iat, sub |-> SealedClaims.sub]

\* A token with the right header issuer that does not decrypt was rejected.
C10_Witness ==
    /\ EncryptedCall /\ SupportedHead /\ KeyDecodes /\ ~Sealed
    /\ JweHead.iss = config.expected_issuer
    /\ call.res.err = "DecryptFailed"

\* C11: with a decryption key, a decrypted token whose issuer, expiry and
\* issue time are valid is accepted whatever its audience (absent, equal or
\* different), with the audience of its plaintext among its claims; a
\* verified signed token is accepted with the configured audience only.
C11_NoAudienceOnEncrypted ==
    /\ (/\ HasSealedClaims
        /\ SealedClaims.iss = config.expected_issuer
        /\ \/ ~config.validate_expiration
           \/ SealedClaims.exp = NoNum
           \/ SealedClaims.exp >= now - Skew /\ SealedClaims.exp + Skew <= U64Max
        /\ \/ ~config.validate_issued_at
           \/ SealedClaims.iat <= now + Skew) =>
            call.res.ok /\ call.res.claims.aud = SealedClaims.aud
    /\ (HasSealedClaims /\ ~call.res.ok) => call.res.err # "AudienceMismatch"
    /\ (Verified /\ HasSignedClaims /\ SignedClaims.aud # config.expected_audience) =>
            ~call.res.ok

\* A decrypted token with another audience was accepted.
C11_Witness ==
    HasSealedClaims /\ SealedClaims.aud = OtherAudience /\ call.res.ok

\* The header of an encrypted token as serde reads it: alg, enc and iss.
ParsedHead ==
    JweHead.t = "json" /\ JweHead.alg # None /\ JweHead.enc # None /\ JweHead.iss # None

\* C12: a five-piece token whose header parses and names a key-management
\* algorithm other than dir or a content encryption other than A256GCM fails
\* with UnsupportedAlgorithm, whatever its issuer and with or without a
\* decryption key, and the decryption key is not used.
C12_UnsupportedAlgorithmFirst ==
    (EncryptedCall /\ ParsedHead /\ (JweHead.alg # "dir" \/ JweHead.enc # "A256GCM")) =>
        /\ call.res.err = "UnsupportedAlgorithm"
        /\ call.log = {"jwe"}

\* A token with an unsupported algorithm and a wrong issuer was rejected for
\* its algorithm under a configuration with a decryption key.
C12_Witness ==
    /\ EncryptedCall /\ ParsedHead /\ JweHead.alg # "dir"
    /\ JweHead.iss # config.expected_issuer
    /\ config.jwe_decryption_key # None
    /\ call.res.err = "UnsupportedAlgorithm"

\* The header of a signed token, when jsonwebtoken reads it.
JwtHead == IF SignedCall /\ Len(Pieces[1]) = 1 THEN Pieces[1][1] ELSE Junk
DecodedHead ==
    JwtHead.t = "json" /\ JwtHead.alg \in {"RS256", "RS384", "RS512", "ES256", "ES384", "HS256"}
KnownKid(c, kid) == \E i \in 1..Len(c.keys) : c.keys[i].kid = kid

\* C13: with a key-set cache configured, a signed token without a key
\* identifier fails with MissingKeyId and neither the cache nor the endpoint
\* is used; one whose key identifier the key set does not hold fails with
\* UnknownKeyId; in neither case is a signature verified or another key used.
C13_KeyIdentifier ==
    (SignedCall /\ DecodedHead /\ config.jwks_manager) =>
        /\ JwtHead.kid = None =>
              call.res.err = "MissingKeyId" /\ call.log = {"jwt"}
        /\ (JwtHead.kid # None /\ cache.present /\ now <= cache.expires_at
            /\ ~KnownKid(cache, JwtHead.kid)) =>
              /\ call.res.err = "UnknownKeyId"
              /\ call.log \subseteq {"jwt", "jwks", "fetch"}
        /\ call.log \cap {"static_key", "dummy_key"} = {}

\* A well-signed token naming a key the fresh key set does not hold was
\* rejected without a fetch.
C13_Witness ==
    /\ SignedCall /\ DecodedHead /\ config.jwks_manager
    /\ JwtHead.kid = "kidX"
    /\ call.res.err = "UnknownKeyId"
    /\ "fetch" \notin call.log

\* ---------------------------------------------------- the JwksManager alone
Held(p) == jpc[p] = "held"
\* The entry the caller found was present and unexpired when it looked.
FoundFresh(p) == jcall[p].before.present /\ jcall[p].at <= jcall[p].before.expires_at
FoundStale(p) == jcall[p].before.present /\ jcall[p].at > jcall[p].before.expires_at
\* The GETs of the endpoint the caller's lookup made.
Fetches(p) == Len(fetch_log) - jcall[p].n_before

\* C14: a lookup makes at most one fetch, and a lookup of a key identifier
\* that a present, unexpired cache entry does not hold answers UnknownKeyId
\* with no fetch at all and the cache as it was.
C14_UnknownKidNoRefetch ==
    \A p \in Callers : Held(p) =>
        /\ Fetches(p) \in {0, 1}
        /\ (FoundFresh(p) /\ ~KnownKid(jcall[p].before, jcall[p].kid)) =>
              /\ ~jcall[p].ok
              /\ jcall[p].err = "UnknownKeyId"
              /\ Fetches(p) = 0
              /\ "fetch" \notin jcall[p].log
              /\ cache = jcall[p].before

\* A second lookup of an unknown key identifier found the entry the first
\* fetched still fresh.
C14_Witness ==
    \E p \in Callers :
        /\ Held(p) /\ FoundFresh(p)
        /\ jcall[p].kid = "kidX"
        /\ jcall[p].err = "UnknownKeyId"
        /\ lookups >= 2
        /\ Len(fetch_log) = 1

\* C15: a lookup that finds an entry at or before its expiry (the time of
\* the fetch that made it plus JWKS_CACHE_DURATION) is answered from it with
\* no fetch; one that finds it after its expiry makes exactly one fetch, at
\* that time, and if that succeeds the new expiry is that time plus
\* JWKS_CACHE_DURATION.
C15_FetchCount ==
    \A p \in Callers : Held(p) =>
        /\ FoundFresh(p) =>
              /\ Fetches(p) = 0
              /\ cache = jcall[p].before
              /\ jcall[p].err # "JwksFetchFailed"
        /\ FoundStale(p) =>
              /\ Fetches(p) = 1
              /\ fetch_log[Len(fetch_log)].at = jcall[p].at
              /\ fetch_log[Len(fetch_log)].answer.ok =>
                    cache.expires_at = jcall[p].at + JWKS_CACHE_DURATION

\* After a lookup that fetched and one the entry answered, a lookup a
\* second after the expiry fetched a new key set.
C15_Witness ==
    \E p \in Callers :
        /\ Held(p) /\ FoundStale(p)
        /\ jcall[p].at = jcall[p].before.expires_at + 1
        /\ lookups = 3
        /\ Len(fetch_log) = 2
        /\ cache.expires_at = jcall[p].at + JWKS_CACHE_DURATION

\* The key record a key set holds for kid: the last one of that kid.
LastOf(keys, kid) ==
    keys[CHOOSE i \in 1..Len(keys) :
            keys[i].kid = kid /\ \A j \in (i + 1)..Len(keys) : keys[j].kid # kid]
\* The entry c is the whole of what the fetch f brought.
HoldsFetch(c, f) ==
    /\ c.present
    /\ c.expires_at = f.at + JWKS_CACHE_DURATION
    /\ \A i, j \in 1..Len(c.keys) : c.keys[i].kid = c.keys[j].kid => i = j
    /\ {c.keys[i] : i \in 1..Len(c.keys)} =
          {LastOf(f.answer.keys, f.answer.keys[i].kid) : i \in 1..Len(f.answer.keys)}
Successes == {i \in 1..Len(fetch_log) : fetch_log[i].answer.ok}

\* C16: the cache slot is empty as long as no fetch has succeeded, and
\* after that it holds the whole key map and the expiry of the last fetch
\* that succeeded; a lookup whose fetch fails answers with an error and
\* leaves the slot as it was.
C16_WholeOrAbsent ==
    /\ IF Successes = {} THEN cache = NoCache
       ELSE HoldsFetch(cache, fetch_log[CHOOSE i \in Successes : \A j \in Successes : j <= i])
    /\ \A p \in Callers :
          (Held(p) /\ Fetches(p) = 1 /\ ~fetch_log[Len(fetch_log)].answer.ok) =>
              /\ ~jcall[p].ok
              /\ jcall[p].err = "JwksFetchFailed"
              /\ cache = jcall[p].before

\* A refresh of an expired entry failed, and the expired entry, fetched from
\* a key set that named one key twice, is still there.
C16_Witness ==
    \E p \in Callers :
        /\ Held(p) /\ FoundStale(p)
        /\ jcall[p].err = "JwksFetchFailed"
        /\ KnownKid(cache, "kid4")
        /\ cache = jcall[p].before

\* C17: a caller answered from a present, unexpired entry holds the lock
\* in shared mode.
C17_SharedReadLock ==
    \A p \in Callers : (Held(p) /\ FoundFresh(p)) => lock.mode = "read"

\* ------------------------------------------------ the key extractor alone
Extracted == extraction.done
HeaderOf(name) == extraction.req.headers[name]
\* The request carries `Authorization: Bearer <token>`.
HasBearer ==
    /\ HeaderOf("Authorization").present /\ HeaderOf("Authorization").ascii
    /\ Len(HeaderOf("Authorization").v) >= 2
    /\ SubSeq(HeaderOf("Authorization").v, 1, 2) = <<Word("Bearer"), Sp>>
BearerToken == SubSeq(HeaderOf("Authorization").v, 3, Len(HeaderOf("Authorization").v))

\* C18: the extractor gives every request an identity that is not empty,
\* and the identity of a request with a bearer token is that token as it
\* stands.
C18_NonEmptyIdentity ==
    Extracted =>
        /\ extraction.key # << >>
        /\ HasBearer => extraction.key = BearerToken

\* A header can be read as text.
Readable(h) == h.present /\ h.ascii
RECURSIVE UpToComma(_)
UpToComma(s) ==
    IF s = << >> \/ Head(s).t = "comma" THEN << >> ELSE <<Head(s)>> \o UpToComma(Tail(s))
RECURSIVE Unpadded(_)
Unpadded(s) ==
    IF s # << >> /\ Head(s).t = "sp" THEN Unpadded(Tail(s))
    ELSE IF s # << >> /\ s[Len(s)].t = "sp" THEN Unpadded(SubSeq(s, 1, Len(s) - 1))
    ELSE s
\* The first of the signals of the request in the order bearer token (if
\* present and not empty), X-Forwarded-For, the seven proxy headers, peer
\* address, "unknown".
RECURSIVE FirstProxy(_)
FirstProxy(i) ==
    IF i > Len(ProxyHeaders)
    THEN IF extraction.req.socket_addr # None
         THEN <<Word(extraction.req.socket_addr)>>
         ELSE <<Word("unknown")>>
    ELSE IF Readable(HeaderOf(ProxyHeaders[i])) THEN HeaderOf(ProxyHeaders[i]).v
    ELSE FirstProxy(i + 1)
FirstAvailable ==
    IF HasBearer /\ Unpadded(BearerToken) # << >> THEN Unpadded(BearerToken)
    ELSE IF Readable(HeaderOf("X-Forwarded-For"))
    THEN Unpadded(UpToComma(HeaderOf("X-Forwarded-For").v))
    ELSE FirstProxy(1)

\* C19: the identity is the first available signal in the fixed order, an
\* Authorization header that is no Bearer token with a value counting as
\* unavailable.
C19_Precedence == Extracted => extraction.key = FirstAvailable

\* ------------------------------------------------- the rate limiter alone
CountedUnder(key) == {i \in 1..Len(counted) : counted[i].key = key}

\* C20: a request is refused only when the burst is used up and a request
\* under the same identity was counted less than 1/RateLimitRps seconds
\* before it: a cell is back that long after any counted request.
C20_Replenish ==
    (hit # NoHit /\ ~hit.admit) =>
        /\ Cardinality(CountedUnder(hit.key)) >= RateLimitBurst
        /\ \E i \in CountedUnder(hit.key) : (hit.at - counted[i].at) * RateLimitRps < 1

\* ------------------------------------- concurrent requests in the limiter
InGate(p) == gate[p].pc # "idle"
Settled(p) == gate[p].pc = "done"
TokenOf(p) ==
    SubSeq(gate[p].req.headers["Authorization"].v, 3,
           Len(gate[p].req.headers["Authorization"].v))
AdmittedAt(key, at) == {i \in 1..Len(counted) : counted[i].key = key /\ counted[i].at = at}

\* The requests of one bearer token have one key, whatever else they carry.
OneBucket ==
    \A p, q \in Clients :
        (InGate(p) /\ InGate(q) /\ TokenOf(p) = TokenOf(q)) =>
            gate[p].key = gate[q].key /\ gate[p].key = TokenOf(p)
\* Of the requests under one key that read the clock at one instant no more
\* than the burst are admitted, and of all requests under a key no more than
\* the burst and what has been replenished since the start.
WithinCapacity ==
    \A p \in Clients : InGate(p) =>
        /\ Cardinality(AdmittedAt(gate[p].key, gate[p].t0)) <= RateLimitBurst
        /\ Cardinality(CountedUnder(gate[p].key)) <=
              RateLimitBurst + RateLimitRps * (now - NowInit)
\* A request is refused only when the burst under its key is used up.
BurstSucceeds ==
    \A p \in Clients :
        (Settled(p) /\ ~gate[p].admit) =>
            Cardinality(CountedUnder(gate[p].key)) >= RateLimitBurst

\* C21: the requests of one bearer token share one bucket; under every
\* interleaving the bucket admits no more than its capacity, and the
\* requests within the burst are all admitted: one is refused only when the
\* burst is used up.
C21_SharedBucket == OneBucket /\ WithinCapacity /\ BurstSucceeds

\* -------------------------------------------------------- the HTTP stack
Reached(layer) == \E i \in 1..Len(http.trace) : http.trace[i] = layer

\* C22: a request the limiter refuses is answered 429 with the body "Rate
\* limit exceeded", adds one to each of the two error counters and reaches
\* neither the trace layer nor a handler; a request it admits goes on to the
\* handler of its path as it came, and the layer adds to neither counter
\* for it: the error counter grows only if the tool the request calls fails.
C22_RateLimitRejection ==
    (Exchanged /\ Downstream) =>
        IF http.refused
        THEN /\ http.resp.status = 429
             /\ http.resp.body = "Rate limit exceeded"
             /\ metrics.total_errors = http.errors_before.total_errors + 1
             /\ metrics.total_rate_limit_errors =
                   http.errors_before.total_rate_limit_errors + 1
             /\ ~Reached("trace") /\ ~Reached("handler")
        ELSE /\ Reached("handler")
             /\ http.resp.status \in {200, 404}
             /\ http.resp.body = (IF http.resp.status = 200 THEN route(http.req.path) ELSE None)
             /\ metrics.total_rate_limit_errors = http.errors_before.total_rate_limit_errors
             /\ metrics.total_errors =
                   http.errors_before.total_errors + (IF http.tool_failed THEN 1 ELSE 0)
             /\ http.tool_failed => route(http.req.path) = "mcp"

\* A request beyond the burst of its key was answered 429 after requests
\* that were admitted.
C22_Witness ==
    /\ Exchanged /\ Downstream /\ http.refused
    /\ http.resp.status = 429
    /\ served = MaxRequests
    /\ metrics.total_rate_limit_errors = 1

\* ------------------------------------------------------ start_server alone
Booting == boot.pc = "done"
HasBind == boot.config.bind_address # None
HasSocket == boot.config.socket_path # None
Did(effect) == \E i \in 1..Len(boot.effects) : boot.effects[i] = effect

\* C23: start_server chooses pipe mode when neither address is set, socket
\* mode when only the socket path is, network mode when only the bind
\* address is, and with both set it returns an error having opened no
\* listener, removed no file and created no session; no start opens the
\* listener or the session of another mode.
C23_OneTransport ==
    Booting =>
        /\ (~HasBind /\ ~HasSocket) => boot.mode = "stdio"
        /\ (~HasBind /\ HasSocket) => boot.mode = "unix"
        /\ (HasBind /\ ~HasSocket) => boot.mode = "http"
        /\ (HasBind /\ HasSocket) =>
              /\ ~boot.ok /\ boot.err = "BothAddresses" /\ boot.mode = None
              /\ ~Did("listener") /\ ~Did("remove_file") /\ ~Did("session")
        /\ Did("session") => boot.mode = "stdio"
        /\ Did("remove_file") => boot.mode = "unix"
        /\ Did("listener") => boot.mode \in {"unix", "http"}

\* With both addresses set, a file at the socket path and nothing in the
\* way of binding, start_server has returned its error.
C23_Witness ==
    /\ Booting /\ HasBind /\ HasSocket
    /\ boot.host.socket_exists /\ boot.host.remove_ok /\ boot.host.bind_ok
    /\ boot.err = "BothAddresses"

\* ------------------------------------------------- the Unix socket server
Ended(c) == Task(c).pc \in {"finished", "panicked", "cancelled"}
Running(c) == Task(c).pc # "none" /\ ~Ended(c)
\* The session of the connection is over: its task has decremented or ended.
Over(c) == Task(c).pc = "reporting" \/ Ended(c)
AtRest == unix.loop = "accepting" /\ \A c \in Conns : ~Running(c)

\* C24: the increment of active_connections for a connection is undone
\* exactly once however its task ends, so with no session task running the
\* static and the gauge are 0.
C24_GaugeRestored ==
    /\ \A c \in Conns : Ended(c) => Task(c).decs = 1
    /\ AtRest => unix.ACTIVE_CONNECTIONS = 0 /\ unix.gauge = 0

\* C25: no update of the counters is lost: neither static wraps,
\* active_connections is the number of connections accepted less the number
\* of sessions that are over, and whenever the loop is not in the middle of
\* counting a connection total_connections is the number accepted and
\* 0 <= active_connections <= total_connections.
C25_NoLostUpdate ==
    /\ unix.ACTIVE_CONNECTIONS # Wrapped /\ unix.TOTAL_CONNECTIONS # Wrapped
    /\ unix.ACTIVE_CONNECTIONS = unix.accepted - Cardinality({c \in Conns : Over(c)})
    /\ unix.loop \in {"accepting", "returned", "exited"} =>
          /\ unix.TOTAL_CONNECTIONS = unix.accepted
          /\ unix.counter = unix.accepted
          /\ 0 <= unix.ACTIVE_CONNECTIONS
          /\ unix.ACTIVE_CONNECTIONS <= unix.TOTAL_CONNECTIONS
    /\ AtRest => unix.gauge = unix.ACTIVE_CONNECTIONS

\* C26: whatever accept or a session does, the loop goes on accepting.
C26_KeepsAccepting == unix.loop \in {"off", "accepting", "counting", "publishing"}


\* ------------------------------------------------------------------- C27
\* The calls that lock the handle and await the engine on it.
OnHandle == {"query", "use_namespace", "use_database"}
HandleOf(s) == svc.mutex[svc.session[s].db].handle
Disconnected(s) == svc.session[s].open /\ HandleOf(s) = NoHandle
Finished(s, k) == svc.task[s][k].pc = "done"
\* The call names a namespace or a database other than the configured one.
OtherThanConfigured(t) ==
    \/ svc.self.namespace # None /\ t.params.namespace \notin {None, svc.self.namespace}
    \/ svc.self.database # None /\ t.params.database \notin {None, svc.self.database}
RefusedWhileDisconnected(check(_)) ==
    \A s \in Sessions, k \in Tasks :
        LET t == svc.task[s][k]
        IN  Finished(s, k) /\ t.op \in OnHandle /\ Disconnected(s)
                => /\ ~t.res.ok
                   /\ t.sent = << >>
                   /\ t.on = NoHandle
                   /\ check(t) => t.res = NotConnected
\* A call that awaits the engine does so on the handle the session then has,
\* and a connect_endpoint that succeeded made a handle no call had before.
OnTheConnection ==
    \A s \in Sessions, k \in Tasks :
        LET t == svc.task[s][k]
        IN  /\ t.pc = "running" => t.on # NoHandle /\ t.on = HandleOf(s)
            /\ Finished(s, k) /\ t.op = "connect_endpoint" /\ t.res.ok
                   => t.new = svc.made /\ HandleOf(s) = t.new
\* A session that serves without a handle gets one by nothing but the
\* return of a connect_endpoint that succeeded.
StaysDisconnected ==
    \A s \in Sessions :
        Disconnected(s) /\ HandleOf(s)' # NoHandle
            => \E k \in Tasks :
                   /\ svc.task[s][k].op = "connect_endpoint"
                   /\ svc.task[s][k].pc = "locking"
                   /\ svc'.task[s][k].pc = "done"
                   /\ svc'.task[s][k].res.ok
Unrestricted(t) == ~OtherThanConfigured(t)
Always(t) == TRUE
Differs(t, field) ==
    svc.self[field] # None /\ t.params[field] # None /\ t.params[field] # svc.self[field]
Fields(op) ==
    IF op = "connect_endpoint" THEN {"endpoint", "namespace", "database"}
    ELSE IF op = "use_namespace" THEN {"namespace"}
    ELSE IF op = "use_database" THEN {"database"}
    ELSE {}
RestrictionError(res) ==
    /\ ~res.ok
    /\ res.message[1] \in {"Cannot connect to endpoint", "Cannot use namespace",
                           "Cannot use database"}
Awaiting(s) == {k \in Tasks : svc.task[s][k].pc = "running"}
\* C29: within a session at most one call awaits the engine at a time, it
\* holds the session's lock, and the handle it runs on stays the session's
\* handle until it returns; a call that waits for the lock waits for a call
\* of its own session, and no two sessions have the same lock.
C29_SessionLock ==
    /\ \A s \in Sessions :
           /\ Cardinality(Awaiting(s)) <= 1
           /\ \A k \in Awaiting(s) :
                  /\ svc.mutex[svc.session[s].db].owner = <<s, k>>
                  /\ svc.mutex[svc.session[s].db].handle = svc.task[s][k].on
           /\ \A k \in Tasks :
                  svc.task[s][k].pc = "locking" /\ svc.mutex[svc.session[s].db].owner # NoOwner
                      => svc.mutex[svc.session[s].db].owner[1] = s
    /\ \A s \in Sessions, q \in Sessions :
           svc.session[s].open /\ svc.session[q].open /\ s # q
               => svc.session[s].db # svc.session[q].db
\* A query of the first session runs, another call of that session waits for
\* the lock, and a query of the second session runs meanwhile.
C29_Witness ==
    /\ svc.task["s1"]["a"].pc = "running"
    /\ svc.task["s1"]["a"].op = "query"
    /\ svc.task["s1"]["b"].pc = "locking"
    /\ svc.task["s1"]["b"].op = "disconnect_endpoint"
    /\ svc.task["s2"]["a"].pc = "running"


\* ------------------------------------------------------------------- C30
\* The interrupt has come; the accept loop has seen it; no request is in
\* flight; start_http_server has returned Ok.
Interrupted == net.signal = "received"
LoopEnded == net.serve \in {"draining", "returned"}
InFlight == {c \in Peers : net.conn[c].state \in {"busy", "last"}}
ReturnedOk == net.serve = "returned" /\ net.result = "Ok"
\* No connection is accepted once the loop has ended.
NoNewConnection ==
    LoopEnded => \A c \in Peers : net.conn[c].state = "none" => net'.conn[c].state = "none"
\* A request that was in flight when the interrupt came is in flight still
\* or has completed, and the server has not returned before it completed.
RunToCompletion ==
    Interrupted =>
        \A c \in Peers :
            /\ net.conn[c].caught =>
                   \/ net.conn[c].outcome = "completed"
                   \/ c \in InFlight /\ net.serve # "returned"
            /\ net.serve = "returned" => c \notin InFlight /\ net.result = "Ok"
EncryptedToggles ==
    EncryptedCall =>
        /\ ~config.validate_expiration => call.res.err # "Expired"
        /\ ~config.validate_issued_at => call.res.err # "IssuedInFuture"
SignedFreshnessToggle ==
    SignedCall /\ ~config.validate_issued_at => call.res.err # "IssuedInFuture"
\* With validate_expiration off no signed token is rejected for its expiry.
SignedExpiryToggle ==
    SignedCall /\ ~config.validate_expiration => call.res.err # "Expired"
\* C31: with validate_expiration off no token is rejected for expiry, and
\* with validate_issued_at off none for freshness, on the signed path and on
\* the encrypted path.
C31_OnlyWhenEnabled == EncryptedToggles /\ SignedFreshnessToggle /\ SignedExpiryToggle

\* ------------------------------------------------------------------- C32
\* C32: the key a signed token is verified with comes from the key-set cache
\* alone when one is configured, a failed lookup rejecting the token; else
\* from the static public key when one is configured; else it is the fixed
\* secret; and a signed token is accepted only if its signature verifies
\* against that key.
C32_KeyPrecedence ==
    (SignedCall /\ DecodedHead) =>
        /\ config.jwks_manager =>
               /\ call.log \cap {"static_key", "dummy_key"} = {}
               /\ "sig" \in call.log => "jwks" \in call.log
               /\ call.res.err \in {"MissingKeyId", "JwksFetchFailed", "UnknownKeyId",
                                    "KeyBuildFailed"} => "sig" \notin call.log
        /\ (~config.jwks_manager /\ config.jwt_public_key # None) =>
               /\ "static_key" \in call.log
               /\ call.log \cap {"jwks", "fetch", "dummy_key"} = {}
        /\ (~config.jwks_manager /\ config.jwt_public_key = None) =>
               /\ "dummy_key" \in call.log
               /\ call.log \cap {"jwks", "fetch", "static_key"} = {}
        /\ call.res.ok => Verified
\* With a key-set cache and a static key configured, a token signed with the
\* static key was verified against the key of the key set and rejected.
C32_Witness ==
    /\ SignedCall /\ DecodedHead
    /\ config.jwks_manager /\ config.jwt_public_key # None
    /\ Pieces[3] = <<Sig("kpem")>>
    /\ call.log = {"jwt", "sig", "jwks"}
    /\ call.res.err = "SignatureInvalid"

\* ------------------------------------------------------------------- C33
Disconnecting(s, k) ==
    svc.task[s][k].op = "disconnect_endpoint" /\ svc.task[s][k].pc = "locking"
\* disconnect_endpoint returns success with the session left without a
\* handle, and a query of a session without a handle fails with 'Not
\* connected'.
DisconnectedAfter ==
    \A s \in Sessions, k \in Tasks :
        LET t == svc.task[s][k]
        IN  /\ Finished(s, k) /\ t.op = "disconnect_endpoint"
                => /\ t.res = success(<<"Successfully disconnected from SurrealDB endpoint">>)
                   /\ t.errors = 0
                   /\ Disconnected(s)
            /\ Finished(s, k) /\ t.op = "query" /\ Disconnected(s)
                => t.res = NotConnected /\ t.sent = << >>
\* disconnect_endpoint on a session without a handle changes nothing but
\* its own call.
Idempotent ==
    \A s \in Sessions, k \in Tasks :
        Disconnecting(s, k) /\ Disconnected(s) /\ Finished(s, k)'
            => /\ svc'.mutex = svc.mutex
               /\ svc'.session = svc.session
               /\ svc'.made = svc.made
\* C33: disconnect_endpoint always succeeds and leaves the session without a
\* handle, with the same state and result when it had none; after it every
\* query fails with 'Not connected', whatever use_namespace, use_database
\* and query calls come between, until a connect_endpoint succeeds.
C33_Disconnect ==
    /\ []DisconnectedAfter
    /\ [][Idempotent /\ StaysDisconnected]_vars
\* A disconnect_endpoint of a session that had no handle has succeeded.
C33_Witness ==
    /\ Finished("s1", "a")
    /\ svc.task["s1"]["a"].op = "disconnect_endpoint"
    /\ svc.task["s1"]["a"].res.ok
    /\ svc.made = 0
    /\ Disconnected("s1")

\* ------------------------------------------------------------------- C34
\* A connect_endpoint that returns an error in this step leaves every
\* handle as it is.
FailureKeepsHandle ==
    \A s \in Sessions, k \in Tasks :
        /\ svc.task[s][k].pc # "done"
        /\ svc'.task[s][k].pc = "done"
        /\ svc'.task[s][k].op = "connect_endpoint"
        /\ ~svc'.task[s][k].res.ok
        => svc'.mutex = svc.mutex
\* The handle of a serving session is replaced by another handle only by a
\* connect_endpoint whose create_client_connection has returned that handle.
ReplacedWhenEstablished ==
    \A s \in Sessions :
        /\ svc.session[s].open
        /\ HandleOf(s)' # HandleOf(s)
        /\ HandleOf(s)' # NoHandle
        => \E k \in Tasks :
               /\ svc.task[s][k].op = "connect_endpoint"
               /\ svc.task[s][k].pc = "locking"
               /\ svc.task[s][k].sent = <<"create_client_connection">>
               /\ svc.task[s][k].new = HandleOf(s)'
               /\ svc'.task[s][k].res.ok
\* A connect_endpoint that failed made no handle.
NoHalfMadeHandle ==
    \A s \in Sessions, k \in Tasks :
        Finished(s, k) /\ svc.task[s][k].op = "connect_endpoint" /\ ~svc.task[s][k].res.ok
            => svc.task[s][k].new = NoHandle
\* C34: a connect_endpoint that is rejected by a startup restriction, or
\* whose connection attempt fails, leaves the session's handle as it was,
\* connected or not; the handle is replaced only when the new connection
\* has been made.
C34_HandleKept ==
    /\ []NoHalfMadeHandle
    /\ [][FailureKeepsHandle /\ ReplacedWhenEstablished]_vars
\* A connected session's connect_endpoint failed in its attempt and the
\* session still has its handle.
C34_Witness ==
    /\ Finished("s1", "a")
    /\ svc.task["s1"]["a"].op = "connect_endpoint"
    /\ svc.task["s1"]["a"].res = internal_error(<<"Failed to connect to endpoint", "memory">>)
    /\ svc.session["s1"].open
    /\ HandleOf("s1") # NoHandle

\* ------------------------------------------------------------------- C35
\* The session serves and has a handle.
Live(s) == svc.session[s].open /\ HandleOf(s) # NoHandle
\* What the session's handle is connected to.
InstanceOf(s) == svc.instance[HandleOf(s)]
Inside(p) == jpc[p] \in {"locked", "held"}
\* One caller at a time has the lock, in exclusive mode.
Exclusive ==
    \A p \in Callers : Inside(p) =>
        /\ lock = [mode |-> "write", holders |-> {p}]
        /\ \A q \in Callers : Inside(q) => q = p
\* What a caller goes by is the slot as it is: nothing is absent or whole
\* but the entry of the last fetch that succeeded.
SeesTheSlot == \A p \in Callers : jpc[p] = "locked" => jcall[p].seen = cache
\* After a fetch that succeeded the endpoint is not asked again before the
\* entry has expired.
OneFetch ==
    \A i \in 1..(Len(fetch_log) - 1) :
        fetch_log[i].answer.ok =>
            fetch_log[i + 1].at > fetch_log[i].at + JWKS_CACHE_DURATION
\* A caller whose turn comes after a fetch that succeeded, before that
\* entry expires, is answered from that entry with no fetch of its own.
AnsweredFromNew ==
    \A p \in Callers :
        /\ Held(p) /\ jcall[p].n_before >= 1
        /\ fetch_log[jcall[p].n_before].answer.ok
        /\ jcall[p].at <= fetch_log[jcall[p].n_before].at + JWKS_CACHE_DURATION
        => /\ HoldsFetch(jcall[p].seen, fetch_log[jcall[p].n_before])
           /\ jcall[p].before = jcall[p].seen
           /\ Fetches(p) = 0
           /\ "fetch" \notin jcall[p].log
           /\ jcall[p].err # "JwksFetchFailed"
           /\ jcall[p].ok = /\ KnownKid(jcall[p].seen, jcall[p].kid)
                            /\ jcall[p].err = None
\* C36: a refresh has the lock in exclusive mode from reading the slot to
\* returning, so while callers ask together with the slot empty or
\* expired, one fetch that succeeds is the only one, each caller that
\* waited is answered from the entry it brought, and a caller goes by the
\* slot as it is when it has the lock.
C36_OneRefresh == Exclusive /\ SeesTheSlot /\ OneFetch /\ AnsweredFromNew
\* Two callers asked with the slot empty: one has fetched the key set and
\* still has the lock, and the other waits for it.
C36_Witness ==
    \E p, q \in Callers :
        /\ Held(p) /\ ~jcall[p].seen.present
        /\ Fetches(p) = 1 /\ fetch_log[Len(fetch_log)].answer.ok
        /\ HoldsFetch(cache, fetch_log[Len(fetch_log)])
        /\ jpc[q] = "wait"
        /\ lock.holders = {p}
        /\ lookups = 2

\* ------------------------------------------------------------------- C37
\* The expiry and the issue time of the decrypted claims pass, the sum of
\* the expiry and the tolerance being within 64 bits.
SealedTimesPass ==
    /\ \/ ~config.validate_expiration
       \/ SealedClaims.exp = NoNum
       \/ SealedClaims.exp >= now - Skew /\ SealedClaims.exp + Skew <= U64Max
    /\ \/ ~config.validate_issued_at
       \/ SealedClaims.iat <= now + Skew
\* C37: with a decryption key, the issuer of a decrypted token is judged by
\* its decrypted claims alone, whatever issuer its header names: claims of
\* another issuer fail with IssuerMismatch, claims of the configured issuer
\* never do, and are accepted when their times pass.
C37_IssuerFromClaims ==
    HasSealedClaims =>
        /\ config.jwe_decryption_key # None
        /\ "jwe_key" \in call.log
        /\ SealedClaims.iss # config.expected_issuer => call.res = Err("IssuerMismatch")
        /\ SealedClaims.iss = config.expected_issuer =>
              /\ call.res.err # "IssuerMismatch"
              /\ SealedTimesPass =>
                    call.res.ok /\ call.res.claims.iss = SealedClaims.iss
\* A token whose header names another issuer and whose decrypted claims
\* name the configured one was accepted.
C37_Witness ==
    /\ HasSealedClaims
    /\ JweHead.iss # config.expected_issuer
    /\ SealedClaims.iss = config.expected_issuer
    /\ call.res.ok

\* ------------------------------------------------------------------- C39
\* The token's expiry is compared by the validator's own check: it was
\* decrypted, or verified and let through by decode, its issuer is the
\* configured one and expiry validation is on.
ExpiryCompared ==
    /\ config.validate_expiration
    /\ \/ HasSealedClaims /\ SealedClaims.iss = config.expected_issuer
          /\ SealedClaims.exp # NoNum
       \/ Verified /\ HasSignedClaims /\ SignedClaims.iss = config.expected_issuer
          /\ SignedClaims.aud = config.expected_audience /\ SignedClaims.sub # None
          /\ SignedClaims.exp # NoNum /\ SignedClaims.iat # NoNum
ComparedExpiry == IF HasSealedClaims THEN SealedClaims.exp ELSE SignedClaims.exp
\* C39: whatever expiry a token carries, the validator does not panic, and
\* an expiry that is not in the past is not taken to be expired.
C39_NoOverflow ==
    /\ Called => call.res.err # "Panic"
    /\ (ExpiryCompared /\ ComparedExpiry >= now) => call.res.err # "Expired"

\* ------------------------------------------------------------------- C38
\* The state a limiter has for a key after the first n requests counted
\* under it, had it seen no request of any other key.
RECURSIVE Alone(_, _)
Alone(key, n) ==
    IF n = 0 THEN NoNum
    ELSE LET i == CHOOSE j \in CountedUnder(key) :
                      Cardinality({h \in CountedUnder(key) : h <= j}) = n
         IN  test_and_update(Alone(key, n - 1), counted[i].at - NowInit).next
OwnCount(key) == Cardinality(CountedUnder(key))
\* The state of every identity is the one its own counted requests give.
OwnState == \A key \in Identities : load(limiter, key) = Alone(key, OwnCount(key))
\* The verdict on the last request is the one a limiter gives that has seen
\* the requests of its identity alone.
OwnVerdict ==
    hit # NoHit =>
        hit.admit =
            test_and_update(Alone(hit.key, OwnCount(hit.key) - (IF hit.admit THEN 1 ELSE 0)),
                            hit.at - NowInit).admit
\* A request is refused only after a whole burst counted under its own
\* identity.
OwnBurst == (hit # NoHit /\ ~hit.admit) => OwnCount(hit.key) >= RateLimitBurst
\* C38: the requests of other identities change neither the state of an
\* identity nor the verdict on any of its requests: both are what its own
\* requests alone give, and a request is never refused for the requests
\* counted under another identity.
C38_Independent == OwnState /\ OwnVerdict /\ OwnBurst
\* One identity has used up its burst, and would be refused now, while a
\* request of the other is admitted.
C38_Witness ==
    \E a \in Identities :
        /\ hit # NoHit /\ hit.key # a /\ hit.admit /\ hit.at = now
        /\ OwnCount(a) >= RateLimitBurst
        /\ ~test_and_update(Alone(a, OwnCount(a)), now - NowInit).admit

====
